---- MODULE Spec2Model ----
(***************************************************************************)
(* Model of the spaced-repetition store of words-telegram-bot              *)
(* (repetition.go): the Repetition table, the operations on it and the     *)
(* scheduling arithmetic of CalcSchedule.                                  *)
(***************************************************************************)
EXTENDS Integers, Sequences, FiniteSets, Bags, TLC

(***************************************************************************)
(* float64 arithmetic.                                                     *)
(*                                                                         *)
(* CalcSchedule computes the interval in float64.  The values involved are *)
(* positive and far from the subnormal and overflow ranges, so a float64   *)
(* is modelled as a record [m, e] that stands for m * 2^e, where m is a    *)
(* natural number of exactly 53 bits.  Every operation computes the exact  *)
(* result and rounds it to nearest, ties to even, as IEEE 754 does.        *)
(* A 53-bit significand does not fit a TLC integer, so naturals are kept   *)
(* as little-endian sequences of limbs in base 2^15.                       *)
(***************************************************************************)
LimbBits == 15

Base == 2^LimbBits

RECURSIVE BigNorm(_)
\* drop the most significant limbs that are zero
BigNorm(a) ==
    IF a = <<>> THEN <<>>
    ELSE IF a[Len(a)] = 0 THEN BigNorm(SubSeq(a, 1, Len(a) - 1))
    ELSE a

RECURSIVE BigFromInt(_)
BigFromInt(n) ==
    IF n = 0 THEN <<>> ELSE <<n % Base>> \o BigFromInt(n \div Base)

RECURSIVE BigToInt(_)
BigToInt(a) ==
    IF a = <<>> THEN 0 ELSE a[1] + Base * BigToInt(Tail(a))

RECURSIVE BigAddCarry(_, _, _)
BigAddCarry(a, b, c) ==
    IF a = <<>> /\ b = <<>> THEN (IF c = 0 THEN <<>> ELSE <<c>>)
    ELSE LET x == IF a = <<>> THEN 0 ELSE a[1]
             y == IF b = <<>> THEN 0 ELSE b[1]
             s == x + y + c
         IN  <<s % Base>> \o
             BigAddCarry(IF a = <<>> THEN <<>> ELSE Tail(a),
                         IF b = <<>> THEN <<>> ELSE Tail(b),
                         s \div Base)

BigAdd(a, b) == BigNorm(BigAddCarry(a, b, 0))

RECURSIVE BigMulSmallCarry(_, _, _)
BigMulSmallCarry(a, k, c) ==
    IF a = <<>> THEN (IF c = 0 THEN <<>> ELSE <<c>>)
    ELSE LET p == a[1] * k + c
         IN  <<p % Base>> \o BigMulSmallCarry(Tail(a), k, p \div Base)

\* a * k for a limb k (0 <= k < Base)
BigMulSmall(a, k) == BigNorm(BigMulSmallCarry(a, k, 0))

RECURSIVE BigMul(_, _)
BigMul(a, b) ==
    IF b = <<>> THEN <<>>
    ELSE LET rest == BigMul(a, Tail(b))
         IN  BigAdd(BigMulSmall(a, b[1]),
                    IF rest = <<>> THEN <<>> ELSE <<0>> \o rest)

RECURSIVE BigDivModSmallFrom(_, _, _, _)
\* long division of a by the limb k, from limb i down, with remainder r
BigDivModSmallFrom(a, k, i, r) ==
    IF i = 0 THEN [q |-> <<>>, r |-> r]
    ELSE LET cur  == r * Base + a[i]
             rest == BigDivModSmallFrom(a, k, i - 1, cur % k)
         IN  [q |-> rest.q \o <<cur \div k>>, r |-> rest.r]

\* quotient and remainder of a by a limb k (0 < k < Base)
BigDivModSmall(a, k) ==
    LET d == BigDivModSmallFrom(a, k, Len(a), 0)
    IN  [q |-> BigNorm(d.q), r |-> d.r]

RECURSIVE BitLenInt(_)
BitLenInt(n) == IF n = 0 THEN 0 ELSE 1 + BitLenInt(n \div 2)

BigBitLen(a) ==
    IF a = <<>> THEN 0 ELSE LimbBits * (Len(a) - 1) + BitLenInt(a[Len(a)])

RECURSIVE BigCmp(_, _)
\* -1, 0 or 1 as a < b, a = b or a > b (both normalised)
BigCmp(a, b) ==
    IF Len(a) # Len(b) THEN (IF Len(a) < Len(b) THEN -1 ELSE 1)
    ELSE IF a = <<>> THEN 0
    ELSE IF a[Len(a)] # b[Len(b)] THEN (IF a[Len(a)] < b[Len(b)] THEN -1 ELSE 1)
    ELSE BigCmp(SubSeq(a, 1, Len(a) - 1), SubSeq(b, 1, Len(b) - 1))

RECURSIVE BigShl(_, _)
\* a * 2^s
BigShl(a, s) ==
    IF a = <<>> THEN <<>>
    ELSE IF s >= LimbBits THEN <<0>> \o BigShl(a, s - LimbBits)
    ELSE BigMulSmall(a, 2^s)

RECURSIVE BigShr(_, _)
\* [q |-> a \div 2^s, lost |-> whether a nonzero bit was shifted out]
BigShr(a, s) ==
    IF a = <<>> THEN [q |-> <<>>, lost |-> FALSE]
    ELSE IF s >= LimbBits
         THEN LET rest == BigShr(Tail(a), s - LimbBits)
              IN  [q |-> rest.q, lost |-> rest.lost \/ a[1] # 0]
    ELSE LET d == BigDivModSmall(a, 2^s)
         IN  [q |-> d.q, lost |-> d.r # 0]

BigIsOdd(a) == a # <<>> /\ a[1] % 2 = 1

SigBits == 53

\* the rounded significand r of a value that lost s bits: rounding up may
\* have carried into a 54th bit
F64Renorm(r, e, s) ==
    IF BigBitLen(r) > SigBits
    THEN [m |-> BigShr(r, 1).q, e |-> e + s + 1]
    ELSE [m |-> r, e |-> e + s]

\* g holds the significand with its guard bit, q without it: round up when
\* the guard bit is set and a lower bit is, or q is odd (ties to even)
F64RoundGuard(g, q, e, s, sticky) ==
    F64Renorm(IF BigIsOdd(g.q) /\ (g.lost \/ sticky \/ BigIsOdd(q))
              THEN BigAdd(q, <<1>>) ELSE q,
              e, s)

\* m has len bits
F64RoundLen(m, e, sticky, len, g) ==
    IF len <= SigBits
    THEN [m |-> BigShl(m, SigBits - len), e |-> e - (SigBits - len)]
    ELSE F64RoundGuard(g, BigShr(g.q, 1).q, e, len - SigBits, sticky)

\* m * 2^e (m > 0, any size), plus a nonzero tail below it when sticky,
\* rounded to a 53-bit significand: nearest, ties to even
F64Round(m, e, sticky) ==
    F64RoundLen(m, e, sticky, BigBitLen(m),
                IF BigBitLen(m) > SigBits
                THEN BigShr(m, BigBitLen(m) - SigBits - 1)
                ELSE [q |-> m, lost |-> FALSE])

\* float64(n) for an integer 0 < n < 2^31: exact
F64FromInt(n) == F64Round(BigFromInt(n), 0, FALSE)

F64Mul(x, y) == F64Round(BigMul(x.m, y.m), x.e + y.e, FALSE)

RECURSIVE BigLowZeroLimbs(_)
BigLowZeroLimbs(a) ==
    IF a = <<>> \/ a[1] # 0 THEN 0 ELSE 1 + BigLowZeroLimbs(Tail(a))

\* x / y for a divisor whose significand, without its low zero limbs, is
\* one limb (the divisors of the code are 100.0 and the literals' 10)
F64Div(x, y) ==
    LET z  == BigLowZeroLimbs(y.m)
        k  == y.m[z + 1]
        ke == y.e + LimbBits * z
        d  == BigDivModSmall(BigShl(x.m, 2 * LimbBits), k)
    IN  F64Round(d.q, x.e - 2 * LimbBits - ke, d.r # 0)

\* x <= y for positive normalised values
F64Le(x, y) ==
    IF x.e # y.e THEN x.e < y.e ELSE BigCmp(x.m, y.m) <= 0

\* math.Min for positive values
F64Min(x, y) == IF F64Le(x, y) THEN x ELSE y

\* int64(x): truncation toward zero (x positive, below 2^31)
F64ToInt(x) ==
    IF x.e >= 0 THEN BigToInt(BigShl(x.m, x.e))
    ELSE BigToInt(BigShr(x.m, -x.e).q)


(***************************************************************************)
(* Program constants.  Times are seconds since the UNIX epoch, as stored.  *)
(***************************************************************************)
Hour == 3600

Day == 86400

AgainDelay == 20

InitialEase == 250

InitialIvl == 0

MinEase == 130

MaxEase == 1300

MaxStages == 1000000

AnswerAgain == 0

AnswerHard == 1

AnswerGood == 2

AnswerEasy == 3

AnswerEase == {AnswerAgain, AnswerHard, AnswerGood, AnswerEasy}

\* the untyped constant 1.3, converted to the nearest float64
EasyBonus == F64Div(F64FromInt(13), F64FromInt(10))

\* the literal 1.2
HardMult == F64Div(F64FromInt(12), F64FromInt(10))

\* the stage durations main() passes to NewRepetition, in seconds
Stages ==
    <<20, 23 * Hour, 2 * 23 * Hour, 3 * 23 * Hour, 5 * 23 * Hour,
      8 * Day, 13 * Day, 21 * Day, 34 * Day, 55 * Day, 89 * Day,
      144 * Day, 233 * Day, 377 * Day>>

\* SQL NULL in an INTEGER column (every stored integer is >= 0)
Null == -1

(***************************************************************************)
(* Bounds of the model.                                                    *)
(***************************************************************************)
\* the (chat, word) pairs the operations are called with: two chats with
\* the same word, and a second word of the first chat
Keys == {<<1, "foo">>, <<2, "foo">>, <<1, "bar">>}

Definitions == {"foo is bar"}

\* the cards saved where the definitions matter: one definition per key,
\* the last with a first paragraph that Repeat strips
Cards ==
    {<<1, "foo", "foo is bar">>, <<2, "foo", "foo ist bar">>,
     <<1, "bar", "bar\n\nbar is baz">>}

Chats == {k[1] : k \in Keys}

\* values of AnswerEase that are none of the four constants
InvalidEase == {4}

\* the clock when the store is opened
T0 == 100 * Day

\* Answer is explored while the interval it writes is at most MaxIvl days
MaxIvl == 64

\* rows of the Repetition table
MaxRows == 2

\* clock steps: at most MaxDays steps of one day and MaxShort of AgainDelay
MaxDays == 2

MaxShort == 1

\* Answer calls in a behaviour of SpecTime
MaxAnswers == 3

\* Answer calls in a behaviour of Spec
MaxStoreAnswers == 1

\* Answer calls in a behaviour of SpecReads
MaxReadAnswers == 1

\* Answer calls in a behaviour of SpecRace before the concurrent ones
MaxPrior == 1

\* the clock of the reminder is followed for MaxPeriods periods
MaxPeriods == 7

\* notifications in a behaviour of SpecReminder
MaxSent == 3

\* Loader.Load calls in a behaviour of SpecLoad
MaxLoads == 2

\* gradings with the buttons in a behaviour of SpecPractice
MaxGrades == 2

\* updates that arrive in a behaviour of SpecPoll
MaxUpdates == 4

VARIABLES
    rows,          \* the Repetition table
    now,           \* time.Now().Unix()
    last,          \* the last call on the store and what it read
    answers,       \* Answer calls made so far, where they are bounded
    inflight,      \* the Answer call of each concurrent update handler
    nsec,          \* the part of time.Now() below the second, in 1/Subs s
    reminders,     \* the Reminders table: chat_id -> last_reminder_time_seconds
    sent,          \* the notifications sent so far
    sentences,     \* the Sentences table of the usage database
    words,         \* its Words table
    translations,  \* its Translations table
    loads,         \* the inputs of the Loader.Load calls made so far
    cache,         \* State.Cache: the LRU cache of word ids of each chat
    practice,      \* the practice message each chat got last, its session
    command,       \* Bot.command: the current command of each chat
    heap,          \* the question objects the commands point to
    pollOffset,    \* Telegram.pollOffset
    pending,       \* the updates the Bot API holds for the bot
    returned       \* the UpdateIds Poll has returned so far

\* the state of the reminder
remvars == <<nsec, reminders, sent>>

\* the state of the loader
loadvars == <<sentences, words, translations, loads>>

\* the state of the callbacks
cbvars == <<cache, practice>>

\* the state of the Bot
botvars == <<command, heap>>

\* the state of Telegram.Poll
pollvars == <<pollOffset, pending, returned>>

\* the state of the handlers of updates
appvars == <<cbvars, botvars, pollvars>>

\* what the operations of the Repetition store never touch
nonstore == <<remvars, loadvars, appvars>>

vars == <<rows, now, last, answers, inflight, remvars, loadvars, appvars>>

(***************************************************************************)
(* The Repetition table: its rows in rowid order.  A query without ORDER   *)
(* BY scans the table in that order, so QueryRow yields the first match.   *)
(***************************************************************************)
NoRow ==
    [chat_id |-> Null, word |-> "", definition |-> "", stage |-> Null,
     last_updated_seconds |-> Null, next_review_seconds |-> Null,
     ease |-> Null, ivl |-> Null]

\* WHERE word = $0 AND chat_id = $1
Matches(r, chatID, word) == r.word = word /\ r.chat_id = chatID

MatchIdx(rs, chatID, word) ==
    {i \in 1..Len(rs) : Matches(rs[i], chatID, word)}

Min(S) == CHOOSE x \in S : \A y \in S : x <= y

Max(S) == CHOOSE x \in S : \A y \in S : x >= y

\* QueryRow(...).Scan: the first matching row, NoRow for sql.ErrNoRows
FirstRow(rs, chatID, word) ==
    IF MatchIdx(rs, chatID, word) = {} THEN NoRow
    ELSE rs[Min(MatchIdx(rs, chatID, word))]

(***************************************************************************)
(* CalcSchedule, after the row has been read: ease, ivl and last_update    *)
(* are the scanned columns, t is time.Now().Unix().  The clock is read     *)
(* twice in the call; both reads fall in the same second in the model.     *)
(***************************************************************************)
\* int64(time.Now().Sub(time.Unix(last_update, 0)).Hours() / 24): the
\* whole days between the two instants
ElapsedDays(last_update, t) == (t - last_update) \div Day

\* CorrectedIvl without the correction
CorrectedIvlNone(ivl, last_update, t) == ivl

\* lines 228-231: correct ivl for the actual time since previous review
CorrectedIvl(ivl, last_update, t) ==
    IF ElapsedDays(last_update, t) > ivl
    THEN ElapsedDays(last_update, t) ELSE ivl

\* AdjustedEase with the Hard case copied from the Again case
AdjustedEaseHardAsAgain(ease, answ) ==
    CASE answ = AnswerAgain -> ease - 20
      [] answ = AnswerHard  -> ease - 20
      [] answ = AnswerEasy  -> ease + 15
      [] OTHER              -> ease

\* the switch on answ, lines 234-245: ease before clamping
AdjustedEase(ease, answ) ==
    CASE answ = AnswerAgain -> ease - 20
      [] answ = AnswerHard  -> ease - 15
      [] answ = AnswerEasy  -> ease + 15
      [] OTHER              -> ease

\* the switch on answ, lines 233-245: mult before the cap
RawMult(ease, answ) ==
    CASE answ = AnswerHard -> HardMult
      [] answ = AnswerGood -> F64Div(F64FromInt(ease), F64FromInt(100))
      [] answ = AnswerEasy ->
            F64Div(F64Mul(F64FromInt(AdjustedEase(ease, answ)), EasyBonus),
                   F64FromInt(100))
      [] OTHER             -> F64FromInt(1)

\* CapMult without the math.Min
CapMultNone(mult) == mult

\* line 246
CapMult(mult) == F64Min(mult, F64FromInt(13))

\* ClampEase without the lower limit
ClampEaseUpperOnly(ease) ==
    IF ease > MaxEase THEN MaxEase ELSE ease

\* lines 247-251
ClampEase(ease) ==
    IF ease < MinEase THEN MinEase
    ELSE IF ease > MaxEase THEN MaxEase
    ELSE ease

\* NextIvl without the forced increase when nivl = ivl
NextIvlNoForce(ivl, mult) ==
    IF ivl = 0 THEN 1
    ELSE IF ivl = 1 THEN 3
    ELSE F64ToInt(F64Mul(F64FromInt(ivl), mult))

\* NextIvl with the case 1 multiplied like the default case
NextIvlNoSecondStep(ivl, mult) ==
    IF ivl = 0 THEN 1
    ELSE LET nivl == F64ToInt(F64Mul(F64FromInt(ivl), mult))
         IN  IF nivl = ivl THEN ivl + 1 ELSE nivl

\* lines 258-272: the interval of a non-Again answer
NextIvl(ivl, mult) ==
    IF ivl = 0 THEN 1
    ELSE IF ivl = 1 THEN 3
    ELSE LET nivl == F64ToInt(F64Mul(F64FromInt(ivl), mult))
         IN  IF nivl = ivl THEN ivl + 1 ELSE nivl

\* AgainSchedule that leaves out the delay
AgainScheduleNoDelay(ease, t) ==
    [ivl |-> 0, ease |-> ease, last_updated_seconds |-> t,
     next_review_seconds |-> t]

\* lines 252-256 and 275-280: the schedule of an Again answer
AgainSchedule(ease, t) ==
    [ivl |-> 0, ease |-> ease, last_updated_seconds |-> t,
     next_review_seconds |-> t + AgainDelay]

\* IntervalSchedule that counts the interval in hours, as Save does
IntervalScheduleHours(ease, ivl, t) ==
    [ivl |-> ivl, ease |-> ease, last_updated_seconds |-> t,
     next_review_seconds |-> t + ivl * Hour]

\* lines 273-280: the schedule of another answer, ivl being the new interval
IntervalSchedule(ease, ivl, t) ==
    [ivl |-> ivl, ease |-> ease, last_updated_seconds |-> t,
     next_review_seconds |-> t + ivl * Day]

CalcSchedule(ease, ivl, last_update, t, answ) ==
    LET civl == CorrectedIvl(ivl, last_update, t)
        mult == CapMult(RawMult(ease, answ))
        e    == ClampEase(AdjustedEase(ease, answ))
    IN  IF answ = AnswerAgain
        THEN AgainSchedule(e, t)
        ELSE IntervalSchedule(e, NextIvl(civl, mult), t)

(***************************************************************************)
(* NewRepetition.  The table may hold rows written before the columns      *)
(* next_review_seconds, ease and ivl existed: they carry a stage and NULL  *)
(* in the new columns.                                                     *)
(***************************************************************************)
LegacyRow(chatID, word, definition, stage, t) ==
    [chat_id |-> chatID, word |-> word, definition |-> definition,
     stage |-> stage, last_updated_seconds |-> t,
     next_review_seconds |-> Null, ease |-> Null, ivl |-> Null]

\* SELECT Stages.duration FROM Stages WHERE Stages.id = Repetition.stage:
\* the ids are 0 .. len(stages)-1 and maxStages (lines 41-47); a scalar
\* subquery without a match is NULL
StageDuration(stage) ==
    IF stage \in 0..(Len(Stages) - 1) THEN Stages[stage + 1]
    ELSE IF stage = MaxStages THEN Stages[Len(Stages)]
    ELSE Null

\* NULL + x is NULL
SqlAdd(a, b) == IF a = Null \/ b = Null THEN Null ELSE a + b

\* InitSchedule without its WHERE clause
InitScheduleEveryRow(r) ==
    [r EXCEPT
       !.next_review_seconds =
           SqlAdd(r.last_updated_seconds, StageDuration(r.stage)),
       !.ease = InitialEase,
       !.ivl = InitialIvl]

\* the UPDATE of lines 91-106, applied to one row
InitSchedule(r) ==
    IF r.next_review_seconds = Null
    THEN [r EXCEPT
            !.next_review_seconds =
                SqlAdd(r.last_updated_seconds, StageDuration(r.stage)),
            !.ease = InitialEase,
            !.ivl = InitialIvl]
    ELSE r

NewRepetitionUpdate(rs) == [i \in 1..Len(rs) |-> InitSchedule(rs[i])]

(***************************************************************************)
(* The operations.  last records the call that produced the state: its     *)
(* arguments, the row it read (pre), whether it returned an error and the  *)
(* clock at the call (t).                                                  *)
(***************************************************************************)
Called(op, chatID, word, answ, pre, err) ==
    [op |-> op, chat_id |-> chatID, word |-> word, answ |-> answ,
     pre |-> pre, err |-> err, t |-> now,
     error |-> <<>>, definition |-> "", found |-> FALSE, count |-> 0,
     shown |-> <<>>, prompt |-> <<>>, question |-> "", asked |-> "",
     saved |-> <<>>, calls |-> 0, user |-> FALSE, buttons |-> <<>>,
     shownAt |-> Null, id |-> Null]

\* sql.ErrNoRows
ErrNoRows == "sql: no rows in result set"

\* the error of row.Scan: sql.ErrNoRows when the query had no row; an error
\* value is the chain of its messages, the outermost first, nil is <<>>
ScanError(r) == IF r = NoRow THEN <<ErrNoRows>> ELSE <<>>

\* fmt.Errorf(msg + ": %w", err)
Wrap(msg, error) == <<msg>> \o error

NewRepetition ==
    /\ rows' = NewRepetitionUpdate(rows)
    /\ last' = Called("NewRepetition", Null, "", Null, NoRow, FALSE)
    /\ UNCHANGED <<now, answers, inflight, nonstore>>

\* SavedRow with the arguments for ease and ivl in the wrong order
SavedRowSwapped(chatID, word, definition, t) ==
    [chat_id |-> chatID, word |-> word, definition |-> definition,
     stage |-> 0, ease |-> InitialIvl, ivl |-> InitialEase,
     last_updated_seconds |-> t,
     next_review_seconds |-> t + InitialIvl * Hour]

\* SavedRow with an initial interval of one hour
SavedRowNextHour(chatID, word, definition, t) ==
    [chat_id |-> chatID, word |-> word, definition |-> definition,
     stage |-> 0, ease |-> InitialEase, ivl |-> InitialIvl,
     last_updated_seconds |-> t,
     next_review_seconds |-> t + 1 * Hour]

\* Save, lines 141-154
SavedRow(chatID, word, definition, t) ==
    [chat_id |-> chatID, word |-> word, definition |-> definition,
     stage |-> 0, ease |-> InitialEase, ivl |-> InitialIvl,
     last_updated_seconds |-> t,
     next_review_seconds |-> t + InitialIvl * Hour]

Save(chatID, word, definition) ==
    /\ Len(rows) < MaxRows
    /\ rows' = Append(rows, SavedRow(chatID, word, definition, now))
    /\ last' = [Called("Save", chatID, word, Null, NoRow, FALSE)
                  EXCEPT !.definition = definition]
    /\ UNCHANGED <<now, answers, inflight, nonstore>>

\* Reschedule with WHERE word = $0 alone
RescheduleAnyChat(r, chatID, word, sc) ==
    IF r.word = word
    THEN [r EXCEPT !.ease = sc.ease, !.ivl = sc.ivl,
                   !.last_updated_seconds = sc.last_updated_seconds,
                   !.next_review_seconds = sc.next_review_seconds]
    ELSE r

\* the UPDATE of Answer, lines 288-298, applied to one row
Reschedule(r, chatID, word, sc) ==
    IF Matches(r, chatID, word)
    THEN [r EXCEPT !.ease = sc.ease, !.ivl = sc.ivl,
                   !.last_updated_seconds = sc.last_updated_seconds,
                   !.next_review_seconds = sc.next_review_seconds]
    ELSE r

\* the schedule Answer computes from the row CalcSchedule reads
ScheduleOf(r, t, answ) ==
    CalcSchedule(r.ease, r.ivl, r.last_updated_seconds, t, answ)

\* Answer, lines 283-303
Answer(chatID, word, answ) ==
    LET pre == FirstRow(rows, chatID, word)
        sc  == ScheduleOf(pre, now, answ)
    IN  /\ IF pre = NoRow
           THEN rows' = rows
           ELSE /\ sc.ivl <= MaxIvl
                /\ rows' = [i \in 1..Len(rows) |->
                              Reschedule(rows[i], chatID, word, sc)]
        /\ last' = [Called("Answer", chatID, word, answ, pre, pre = NoRow)
                        EXCEPT !.error = ScanError(pre)]
        /\ UNCHANGED <<now, inflight, nonstore>>

\* the update handlers that may run at the same time: with a webhook, the
\* HTTP server serves every update in a goroutine of its own
Handlers == {1, 2}

\* a handler that is not inside Answer
NoCall ==
    [pc |-> "idle", chat_id |-> Null, word |-> "", answ |-> Null,
     pre |-> NoRow, seq |-> 0]

\* handlers that have entered Answer
Entered == {h \in Handlers : inflight[h].pc # "idle"}

\* Answer in handler h up to the return of CalcSchedule, lines 284-287: the
\* row is read and the schedule computed; seq numbers the calls in the order
\* of their reads
AnswerLoad(h, chatID, word, answ) ==
    LET pre == FirstRow(rows, chatID, word)
    IN  /\ inflight[h].pc = "idle"
        /\ inflight' = [inflight EXCEPT ![h] =
              [pc |-> IF pre = NoRow THEN "done" ELSE "loaded",
               chat_id |-> chatID, word |-> word, answ |-> answ,
               pre |-> pre, seq |-> Cardinality(Entered) + 1]]
        /\ last' = IF pre = NoRow
                   THEN [Called("Answer", chatID, word, answ, pre, TRUE)
                           EXCEPT !.error = ScanError(pre)]
                   ELSE last
        /\ UNCHANGED <<rows, now, answers, nonstore>>

\* the rest of Answer in handler h, lines 288-302: the UPDATE writes the
\* schedule computed from the row read before
AnswerPersist(h) ==
    LET c  == inflight[h]
        sc == ScheduleOf(c.pre, now, c.answ)
    IN  /\ c.pc = "loaded"
        /\ rows' = [i \in 1..Len(rows) |->
                      Reschedule(rows[i], c.chat_id, c.word, sc)]
        /\ inflight' = [inflight EXCEPT ![h].pc = "done"]
        /\ last' = Called("Answer", c.chat_id, c.word, c.answ, c.pre, FALSE)
        /\ UNCHANGED <<now, answers, nonstore>>

\* DeleteRows that deletes one row only
DeleteRowsFirst(rs, chatID, word) ==
    IF MatchIdx(rs, chatID, word) = {} THEN rs
    ELSE LET k == Min(MatchIdx(rs, chatID, word))
         IN  SubSeq(rs, 1, k - 1) \o SubSeq(rs, k + 1, Len(rs))

\* DELETE FROM Repetition WHERE word = $0 AND chat_id = $1
DeleteRows(rs, chatID, word) ==
    SelectSeq(rs, LAMBDA r : ~Matches(r, chatID, word))

\* Delete, lines 332-343
Delete(chatID, word) ==
    /\ rows' = DeleteRows(rows, chatID, word)
    /\ last' = Called("Delete", chatID, word, Null, NoRow, FALSE)
    /\ UNCHANGED <<now, answers, inflight, nonstore>>

(***************************************************************************)
(* The queries.  They leave the table alone and return what they read.     *)
(***************************************************************************)
\* DueIdx without the condition on chat_id
DueIdxAnyChat(rs, chatID, t) ==
    {i \in 1..Len(rs) :
        /\ rs[i].next_review_seconds # Null
        /\ rs[i].next_review_seconds <= t}

\* DueIdx with < for <=
DueIdxStrict(rs, chatID, t) ==
    {i \in 1..Len(rs) :
        /\ rs[i].next_review_seconds # Null
        /\ rs[i].next_review_seconds < t
        /\ rs[i].chat_id = chatID}

\* WHERE Repetition.next_review_seconds <= $0 AND Repetition.chat_id = $1,
\* lines 165-166 and 187-188; NULL <= $0 is not true
DueIdx(rs, chatID, t) ==
    {i \in 1..Len(rs) :
        /\ rs[i].next_review_seconds # Null
        /\ rs[i].next_review_seconds <= t
        /\ rs[i].chat_id = chatID}

\* QueryRow(...).Scan of Repeat and RepeatWord
FirstDue(rs, chatID, t) ==
    IF DueIdx(rs, chatID, t) = {} THEN NoRow
    ELSE rs[Min(DueIdx(rs, chatID, t))]

\* RepeatWord, lines 183-193: the word and the error of Scan
RepeatWord(chatID) ==
    LET pre == FirstDue(rows, chatID, now)
    IN  /\ last' = [Called("RepeatWord", chatID, pre.word, Null, pre,
                           pre = NoRow)
                      EXCEPT !.error = ScanError(pre)]
        /\ UNCHANGED <<rows, now, answers, inflight, nonstore>>

\* practiceReply, lines 487-494: what it returns for the error of
\* RepeatWord, the messages being sent without error
PracticeReplyError(error) ==
    IF error = <<ErrNoRows>> THEN <<>>
    ELSE IF error # <<>> THEN Wrap("retrieving word for repetition", error)
    ELSE <<>>

\* the text of a definition: its paragraphs (separated by an empty line),
\* each the sequence of its words
Paragraphs(d) ==
    CASE d = "foo is bar"        -> << <<"foo", "is", "bar">> >>
      [] d = "foo ist bar"       -> << <<"foo", "ist", "bar">> >>
      [] d = "bar\n\nbar is baz" -> << <<"bar">>, <<"bar", "is", "baz">> >>
      [] OTHER                   -> << >>

\* lines 173-178: strip the first paragraph if there are several, then
\* replace the word by ********
MaskedPrompt(d, w) ==
    LET ps   == Paragraphs(d)
        rest == IF Len(ps) > 1 THEN Tail(ps) ELSE ps
    IN  [i \in 1..Len(rest) |->
            [j \in 1..Len(rest[i]) |->
                IF rest[i][j] = w THEN "********" ELSE rest[i][j]]]

\* Repeat, lines 157-179
Repeat(chatID) ==
    LET pre == FirstDue(rows, chatID, now)
    IN  /\ last' = [Called("Repeat", chatID, "", Null, pre, pre = NoRow)
                      EXCEPT !.error = ScanError(pre),
                             !.prompt = IF pre = NoRow THEN <<>>
                                        ELSE MaskedPrompt(pre.definition,
                                                          pre.word)]
        /\ UNCHANGED <<rows, now, answers, inflight, nonstore>>

\* Stats, lines 129-139: SELECT COUNT(*) ... WHERE chat_id = $1
Stats(chatID) ==
    /\ last' = [Called("Stats", chatID, "", Null, NoRow, FALSE)
                  EXCEPT !.count =
                    Cardinality({i \in 1..Len(rows) :
                                    rows[i].chat_id = chatID})]
    /\ UNCHANGED <<rows, now, answers, inflight, nonstore>>

\* GetDefinition, lines 305-317
GetDefinition(chatID, word) ==
    LET pre == FirstRow(rows, chatID, word)
    IN  /\ last' = [Called("GetDefinition", chatID, word, Null, pre,
                           pre = NoRow)
                      EXCEPT !.error =
                               IF pre = NoRow
                               THEN Wrap("INTERNAL: Did not find definition",
                                         ScanError(pre))
                               ELSE <<>>,
                             !.definition = pre.definition]
        /\ UNCHANGED <<rows, now, answers, inflight, nonstore>>

\* SELECT COUNT(*) ... WHERE chat_id = $1 AND word = $2; return d > 0
ExistsResult(rs, chatID, word) == Cardinality(MatchIdx(rs, chatID, word)) > 0

\* Exists, lines 319-330
Exists(chatID, word) ==
    /\ last' = [Called("Exists", chatID, word, Null, NoRow, FALSE)
                  EXCEPT !.count = Cardinality(MatchIdx(rows, chatID, word)),
                         !.found = ExistsResult(rows, chatID, word)]
    /\ UNCHANGED <<rows, now, answers, inflight, nonstore>>

\* ShowAnswerCallback that gets its intervals from Answer: the last grade
\* of the loop stays in the table
ShowAnswerCallbackPersists(chatID, word) ==
    LET pre == FirstRow(rows, chatID, word)
    IN  /\ last' = [Called("ShowAnswerCallback", chatID, word, Null, pre,
                           pre = NoRow)
                      EXCEPT !.error = ScanError(pre)]
        /\ rows' = [i \in 1..Len(rows) |->
                      Reschedule(rows[i], chatID, word,
                                 ScheduleOf(pre, now, AnswerEasy))]
        /\ UNCHANGED <<now, answers, inflight, nonstore>>

\* the grades ShowAnswerCallback previews, in the order of its loop
Previewed == <<AnswerAgain, AnswerHard, AnswerGood, AnswerEasy>>

\* ShowAnswerCallback.Call for a word id the cache holds: CalcSchedule for
\* each grade, the intervals going onto the buttons; the first error of
\* CalcSchedule is returned
ShowAnswerCallback(chatID, word) ==
    LET pre == FirstRow(rows, chatID, word)
    IN  /\ last' = [Called("ShowAnswerCallback", chatID, word, Null, pre,
                           pre = NoRow)
                      EXCEPT !.error = ScanError(pre),
                             !.shown =
                               IF pre = NoRow THEN <<>>
                               ELSE [i \in 1..Len(Previewed) |->
                                       ScheduleOf(pre, now, Previewed[i]).ivl]]
        /\ UNCHANGED <<rows, now, answers, inflight, nonstore>>

(***************************************************************************)
(* The reminder.  Its clock is time.Now() with the part below the second:  *)
(* now seconds and nsec / Subs seconds.  Reminder.Loop calls               *)
(* TrySendNotification for every chat that has settings, on every pass.    *)
(***************************************************************************)
\* parts of a second the clock distinguishes
Subs == 4

\* const frequency = 1
Frequency == 1

\* 24 / frequency * time.Hour, in seconds
ReminderInterval == (24 \div Frequency) * Hour

\* the clock is read at whole multiples of Period after T0, give or take
\* a part of a second
Period == 6 * Hour

\* the settings fetchSettings returns: a window of the day in UTC for chat
\* 1, two windows six hours east of UTC for chat 2
SettingsOf(chatID) ==
    IF chatID = 1
    THEN [TimeZoneOffset |-> 0,
          AvailibilityWindows |->
              << [StartSeconds |-> 10 * Hour, EndSeconds |-> 19 * Hour] >>]
    ELSE [TimeZoneOffset |-> 6 * Hour,
          AvailibilityWindows |->
              << [StartSeconds |-> 10 * Hour, EndSeconds |-> 13 * Hour],
                 [StartSeconds |-> 17 * Hour, EndSeconds |-> 19 * Hour] >>]

\* LastReminderTime, lines 45-62: the stored second, 0 without a row
LastReminderTime(chatID) ==
    IF reminders[chatID] = Null THEN 0 ELSE reminders[chatID]

\* now.After(time.Unix(u, 0)): the clock is past the whole second u
NowAfter(u) == now > u \/ (now = u /\ nsec > 0)

\* NowLocal that leaves the time in UTC
NowLocalUTC(t, offset) == t % Day

\* now.In(LocationFromOffset(offset)), lines 112 and 128-130: the second
\* of the day on a clock offset seconds east of UTC
NowLocal(t, offset) == (t + offset) % Day

\* window.Contains(nowLocal): the time of day lies between the window's
\* StartSeconds and EndSeconds
Contains(window, secondOfDay) ==
    window.StartSeconds <= secondOfDay /\ secondOfDay <= window.EndSeconds

\* lines 113-115: some window of the settings contains the local time
InSomeWindow(settings, t) ==
    \E i \in 1..Len(settings.AvailibilityWindows) :
        Contains(settings.AvailibilityWindows[i],
                 NowLocal(t, settings.TimeZoneOffset))

\* a notification, with the time it was sent at in 1/Subs seconds
Notification(chatID) == [chat_id |-> chatID, at |-> now * Subs + nsec]

\* the error of a failed call of the Bot API
SendError == "telegram: call failed"

\* TrySendNotification that stores the time before it sends
TrySendNotificationStoresFirst(chatID, ok) ==
    LET newRT == LastReminderTime(chatID) + ReminderInterval
        send  == NowAfter(newRT) /\ InSomeWindow(SettingsOf(chatID), now)
    IN  /\ send /\ ok => Len(sent) < MaxSent
        /\ sent' = IF send /\ ok THEN Append(sent, Notification(chatID))
                   ELSE sent
        /\ reminders' = IF send THEN [reminders EXCEPT ![chatID] = now]
                        ELSE reminders
        /\ last' = [Called("TrySendNotification", chatID, "", Null, NoRow,
                           send /\ ~ok)
                      EXCEPT !.found = send,
                             !.error = IF send /\ ~ok THEN <<SendError>>
                                       ELSE <<>>]
        /\ UNCHANGED <<rows, now, answers, inflight, nsec, loadvars, appvars>>

\* TrySendNotification, lines 98-126, the database returning no error; ok
\* tells whether sendNofication would return no error.  The notification
\* is sent if the clock is past the stored time plus the interval and in a
\* window; if it is not delivered the error is returned before
\* UpdateLastReminderTime, which stores timeNow().Unix()
TrySendNotification(chatID, ok) ==
    LET newRT == LastReminderTime(chatID) + ReminderInterval
        send  == NowAfter(newRT) /\ InSomeWindow(SettingsOf(chatID), now)
    IN  /\ send /\ ok => Len(sent) < MaxSent
        /\ sent' = IF send /\ ok THEN Append(sent, Notification(chatID))
                   ELSE sent
        /\ reminders' = IF send /\ ok THEN [reminders EXCEPT ![chatID] = now]
                        ELSE reminders
        /\ last' = [Called("TrySendNotification", chatID, "", Null, NoRow,
                           send /\ ~ok)
                      EXCEPT !.found = send,
                             !.error = IF send /\ ~ok THEN <<SendError>>
                                       ELSE <<>>]
        /\ UNCHANGED <<rows, now, answers, inflight, nsec, loadvars, appvars>>

\* the time that passes between two readings of the clock, in 1/Subs s
ClockSteps == {1, Period * Subs - 1, Period * Subs}

\* the clock advances by d
Elapse(d) ==
    LET c == now * Subs + nsec + d
    IN  /\ c \div Subs <= T0 + MaxPeriods * Period
        /\ (c \div Subs - T0) % Period = 0
        /\ now' = c \div Subs
        /\ nsec' = c % Subs
        /\ UNCHANGED <<rows, last, answers, inflight, reminders, sent,
                       loadvars, appvars>>

\* NewReminder on a database without the Reminders table: no row
InitReminder ==
    /\ nsec = 0
    /\ reminders = [c \in Chats |-> Null]
    /\ sent = <<>>

(***************************************************************************)
(* The loader of the usage examples (migrate/load.go).  Sentences has the  *)
(* primary key id; Words and Translations have no key, and the goroutines  *)
(* of ReadAndLoad insert into them in no fixed order: they are bags of     *)
(* rows.                                                                   *)
(***************************************************************************)
\* the rows a sentences file may hold: id, lang and the text, which is the
\* sequence of the pieces strings.Split(text, " ") yields
SentenceRows ==
    { [id |-> 1, lang |-> "hun", text |-> <<"Alma", "fa.">>],
      [id |-> 2, lang |-> "eng", text |-> <<"apple", "apple">>],
      [id |-> 3, lang |-> "hun", text |-> <<"alma">>] }

\* the rows a links file may hold
LinkRows ==
    { [id |-> 1, translation_id |-> 2], [id |-> 2, translation_id |-> 1] }

\* the inputs of Load: a sentences file with at least one row, a links file
Inputs ==
    { [sentences |-> sf, links |-> lf] :
        sf \in (SUBSET SentenceRows) \ {{}}, lf \in SUBSET LinkRows }

\* strings.ToLower(r.Replace(w)), lines 85-99
NormalizedWord(w) ==
    CASE w = "Alma" -> "alma"
      [] w = "fa."  -> "fa"
      [] OTHER      -> w

\* the rows p.word inserts for a sentence, lines 97-102: one for every
\* piece of the text
WordRows(sentence) ==
    [i \in 1..Len(sentence.text) |->
        [word |-> NormalizedWord(sentence.text[i]), lang |-> sentence.lang,
         sentence_id |-> sentence.id]]

\* the bag of the elements of a sequence
SeqToBag(q) ==
    [x \in {q[i] : i \in 1..Len(q)} |->
        Cardinality({i \in 1..Len(q) : q[i] = x})]

\* INSERT OR REPLACE INTO Sentences for the rows of a file: id is the
\* primary key, a row with the id of a new row is replaced
InsertSentences(table, file) ==
    {r \in table : \A n \in file : n.id # r.id} \cup file

\* INSERT OR REPLACE INTO Words for the sentences of a file: the table has
\* no key, so nothing is replaced
InsertWords(table, file) ==
    table (+) BagUnion({SeqToBag(WordRows(n)) : n \in file})

\* INSERT OR REPLACE INTO Translations for the rows of a links file: no key
InsertTranslations(table, file) == table (+) SetToBag(file)

\* Loader.Load, lines 271-318, with ReadAndLoad, lines 52-146: the tables
\* exist after the first call, the rows of both files are inserted and
\* committed (proc.cleanup)
Load(input) ==
    /\ Len(loads) < MaxLoads
    /\ sentences' = InsertSentences(sentences, input.sentences)
    /\ words' = InsertWords(words, input.sentences)
    /\ translations' = InsertTranslations(translations, input.links)
    /\ loads' = Append(loads, input)
    /\ last' = Called("Load", Null, "", Null, NoRow, FALSE)
    /\ UNCHANGED <<rows, now, answers, inflight, remvars, appvars>>

\* SELECT COUNT(*) of Sentences, Translations and Words
TableCounts(s, t, w) ==
    <<Cardinality(s), BagCardinality(t), BagCardinality(w)>>

\* the usage database before the first Load
InitLoader ==
    /\ sentences = {}
    /\ words = EmptyBag
    /\ translations = EmptyBag
    /\ loads = <<>>

(***************************************************************************)
(* The commands of the Bot.  A multiQuestionCommand points to its question *)
(* objects; heap holds the objects, those of the templates the factories   *)
(* were built with (owner 0) and those of the command of each chat.  An    *)
(* object no command points to any more is collected: its cell is Blank.   *)
(***************************************************************************)
\* CommandsTemplate.Commands with questions, and the names of the questions
\* their factories were built with: AddCommandFactory, DeleteCommandFactory
Templates ==
    [n \in {"/add", "/delete"} |->
        IF n = "/add" THEN <<"front", "back">> ELSE <<"word">>]

\* ReplyCommand(practiceReply): a command without questions
ReplyCommands == {"/practice"}

CommandNames == DOMAIN Templates \cup ReplyCommands

\* the question names of the command n
QuestionNames(n) == IF n \in DOMAIN Templates THEN Templates[n] ELSE <<>>

\* the owner of the objects of the templates
Template == 0

Addr ==
    {[owner |-> o, cmd |-> n, i |-> i] :
        o \in {Template} \cup Chats, n \in DOMAIN Templates, i \in 1..2}

\* the cell of an object that does not exist
Blank == [name |-> "", answer |-> ""]

\* Bot.command[chatID] == nil
NilCommand ==
    [kind |-> "nil", name |-> "", questions |-> <<>>, lastQuestion |-> ""]

\* defaultCommand{}
DefaultCommand ==
    [kind |-> "default", name |-> "", questions |-> <<>>,
     lastQuestion |-> ""]

\* the cells of heap h without the objects of the chat
Collected(h, chatID) ==
    [a \in Addr |-> IF a.owner = chatID THEN Blank ELSE h[a]]

\* MultiQuestionCommandFactory that hands out the questions it was built
\* with
FactoryShared(name, chatID, h) ==
    [cmd  |-> [kind |-> "multi", name |-> name,
               questions |-> [i \in 1..Len(QuestionNames(name)) |->
                                [owner |-> Template, cmd |-> name, i |-> i]],
               lastQuestion |-> ""],
     heap |-> Collected(h, chatID)]

\* the CommandFactory of MultiQuestionCommandFactory, lines 351-364, called
\* for the chat: a new question object for each question of the template,
\* with the content of that question
Factory(name, chatID, h) ==
    [cmd  |-> [kind |-> "multi", name |-> name,
               questions |-> [i \in 1..Len(QuestionNames(name)) |->
                                [owner |-> chatID, cmd |-> name, i |-> i]],
               lastQuestion |-> ""],
     heap |-> [a \in Addr |->
                 IF a.owner # chatID THEN h[a]
                 ELSE IF a.cmd = name /\ a.i <= Len(QuestionNames(name))
                 THEN h[[owner |-> Template, cmd |-> name, i |-> a.i]]
                 ELSE Blank]]

\* the answers of the questions of cmd, in list order
AnswersOf(cmd, h) == [i \in 1..Len(cmd.questions) |-> h[cmd.questions[i]].answer]

\* updateCommand(chatID, cmd), lines 205-212: SaveCommand does nothing
UpdateCommand(cs, chatID, cmd) == [cs EXCEPT ![chatID] = cmd]

\* the deferred function of Bot.Update, lines 221-235, for an error that is
\* no UserError or a UserError that could not be surfaced: the command of
\* the chat is reset
ResetOnError(chatID, err) ==
    /\ command' = IF err THEN UpdateCommand(command, chatID, NilCommand)
                  ELSE command
    /\ heap' = IF err THEN Collected(heap, chatID) ELSE heap

\* NewBot, and the question objects of the templates
InitBot ==
    /\ command = [c \in Chats |-> NilCommand]
    /\ heap = [a \in Addr |->
                 IF a.owner = Template /\ a.i <= Len(QuestionNames(a.cmd))
                 THEN [name |-> QuestionNames(a.cmd)[a.i], answer |-> ""]
                 ELSE Blank]

(***************************************************************************)
(* The callbacks of the inline buttons.  A button carries the id under     *)
(* which WordsCache.Add stored the word of its card; the cache of a chat   *)
(* is the sequence of its entries, the most recently used first.           *)
(***************************************************************************)
\* the maxEntries NewWordsCache is called with
CacheMaxEntries == 1

\* the values rand.Int63() returns
Ids == {1, 2}

\* the sends of a handler that may fail: none, the first or the second
Fails == {0, 1, 2}

CacheIdx(c, id) == {i \in 1..Len(c) : c[i].id = id}

\* the entries of c under another key than id
CacheWithout(c, id) ==
    LET Other(e) == e.id # id
    IN  SelectSeq(c, Other)

\* lru.Cache.Add: an entry under a known key is replaced and moved to the
\* front, a new one is pushed to the front and the oldest removed beyond
\* maxEntries
CacheAdd(c, id, front) ==
    LET s == <<[id |-> id, word |-> front]>> \o CacheWithout(c, id)
    IN  SubSeq(s, 1, IF Len(s) > CacheMaxEntries THEN CacheMaxEntries
                     ELSE Len(s))

\* CacheLookup in one cache that all chats share
CacheLookupAnyChat(chatID, id) ==
    IF \A c \in Chats : CacheIdx(cache[c], id) = {}
    THEN [ok |-> FALSE, front |-> ""]
    ELSE LET c == CHOOSE d \in Chats : CacheIdx(cache[d], id) # {}
         IN  [ok |-> TRUE, front |-> cache[c][Min(CacheIdx(cache[c], id))].word]

\* WordsCache.Get, lines 44-52: front and ok for the id in the cache of the
\* chat
CacheLookup(chatID, id) ==
    IF CacheIdx(cache[chatID], id) = {}
    THEN [ok |-> FALSE, front |-> ""]
    ELSE [ok |-> TRUE,
          front |-> cache[chatID][Min(CacheIdx(cache[chatID], id))].word]

\* lru.Cache.Get: a hit moves the entry to the front
CacheGet(c, id) ==
    IF CacheIdx(c, id) = {} THEN c
    ELSE <<c[Min(CacheIdx(c, id))]>> \o CacheWithout(c, id)

\* the practice message of a chat: pc is "card" while a card is presented
\* with its buttons, "nomore" after "No more rows to practice", "failed"
\* after a send that failed.  n, graded, clean, fresh and t0 describe the
\* session the message belongs to: the due rows and the clock at /practice,
\* the gradings since, whether every grading was a non-Again grade of the
\* presented card, and whether no row has become due since
NoPractice ==
    [pc |-> "none", id |-> Null, word |-> "", n |-> 0, graded |-> 0,
     clean |-> TRUE, fresh |-> TRUE, t0 |-> Null]

\* rows of the chat that are due at t and were not at t0
BecameDue(rs, chatID, t0, t) ==
    {i \in DueIdx(rs, chatID, t) : rs[i].next_review_seconds > t0}

\* PracticeReply without the condition on next_review_seconds
PracticeReplyFirstRow(rs, chatID, c, newID, ok) ==
    LET due == IF \E i \in 1..Len(rs) : rs[i].chat_id = chatID
               THEN rs[Min({i \in 1..Len(rs) : rs[i].chat_id = chatID})]
               ELSE NoRow
    IN  [cache |-> IF due = NoRow THEN c ELSE CacheAdd(c, newID, due.word),
         pc    |-> IF ~ok THEN "failed"
                   ELSE IF due = NoRow THEN "nomore" ELSE "card",
         id    |-> IF ok /\ due # NoRow THEN newID ELSE Null,
         word  |-> IF ok THEN due.word ELSE "",
         error |-> IF ok THEN <<>> ELSE <<SendError>>]

\* practiceReply, lines 481-497, on the table rs and the cache c of the
\* chat: RepeatWord, then "No more rows to practice" or Cache.Add under
\* newID and the card with its Show Answer button; ok tells whether the
\* message is sent
PracticeReply(rs, chatID, c, newID, ok) ==
    LET due == FirstDue(rs, chatID, now)
    IN  [cache |-> IF due = NoRow THEN c ELSE CacheAdd(c, newID, due.word),
         pc    |-> IF ~ok THEN "failed"
                   ELSE IF due = NoRow THEN "nomore" ELSE "card",
         id    |-> IF ok /\ due # NoRow THEN newID ELSE Null,
         word  |-> IF ok THEN due.word ELSE "",
         error |-> IF ok THEN <<>> ELSE <<SendError>>]

\* the practice message after practiceReply in the session of p
Presented(p, pr, rs, chatID) ==
    [p EXCEPT !.pc = pr.pc, !.id = pr.id, !.word = pr.word,
              !.fresh = p.fresh /\ BecameDue(rs, chatID, p.t0, now) = {}]

\* Call of AnswerCallback and DontKnowCallback, lines 55-79 and 133-155:
\* the word of the id, Answer, flipWordCard and, if reply, practiceReply.  As with Answer, the count of the calls is left
\* to the specification that bounds them.  The record of a call that
\* follows the preview of its card keeps the buttons of the preview and the
\* time they were built at
GradeCallback(op, chatID, wordID, ease, newID, fail, reply) ==
    LET hit  == CacheLookup(chatID, wordID).ok
        word == CacheLookup(chatID, wordID).front
        c    == CacheGet(cache[chatID], wordID)
        pre  == FirstRow(rows, chatID, word)
        sc   == ScheduleOf(pre, now, ease)
        rs   == [i \in 1..Len(rows) |-> Reschedule(rows[i], chatID, word, sc)]
        pr   == PracticeReply(rs, chatID, c, newID, fail # 2)
        p    == practice[chatID]
        shown == /\ last.op = "ShowAnswerCallback"
                 /\ last.chat_id = chatID
                 /\ last.word = word
        told == [p EXCEPT !.graded = p.graded + 1,
                          !.clean = /\ p.clean
                                    /\ ease # AnswerAgain
                                    /\ p.pc = "card"
                                    /\ p.id = wordID]
    IN  IF ~hit
        THEN /\ last' = [Called(op, chatID, "", ease, NoRow, FALSE)
                           EXCEPT !.id = wordID]
             /\ UNCHANGED <<rows, cache, practice>>
        ELSE IF pre = NoRow
        THEN /\ last' = [Called(op, chatID, word, ease, pre, TRUE)
                           EXCEPT !.found = TRUE, !.error = ScanError(pre),
                                  !.id = wordID]
             /\ cache' = [cache EXCEPT ![chatID] = c]
             /\ UNCHANGED <<rows, practice>>
        ELSE /\ sc.ivl <= MaxIvl
             /\ rows' = rs
             /\ IF fail = 1
                THEN /\ cache' = [cache EXCEPT ![chatID] = c]
                     /\ practice' = [practice EXCEPT ![chatID] =
                                       [told EXCEPT !.pc = "failed"]]
                     /\ last' = [Called(op, chatID, word, ease, pre, TRUE)
                                   EXCEPT !.found = TRUE,
                                          !.id = wordID,
                                          !.error = Wrap("editing message",
                                                         <<SendError>>)]
                ELSE IF ~reply
                THEN /\ cache' = [cache EXCEPT ![chatID] = c]
                     /\ practice' = [practice EXCEPT ![chatID] =
                                       [told EXCEPT !.pc = "none"]]
                     /\ last' = [Called(op, chatID, word, ease, pre, FALSE)
                                   EXCEPT !.found = TRUE, !.id = wordID]
                ELSE /\ cache' = [cache EXCEPT ![chatID] = pr.cache]
                     /\ practice' = [practice EXCEPT ![chatID] =
                                       Presented(told, pr, rs, chatID)]
                     /\ last' = [Called(op, chatID, word, ease, pre,
                                        pr.error # <<>>)
                                   EXCEPT !.found = TRUE,
                                          !.id = wordID,
                                          !.error = pr.error,
                                          !.buttons = IF shown
                                                      THEN last.buttons
                                                      ELSE <<>>,
                                          !.shownAt = IF shown THEN last.t
                                                      ELSE Null]

\* the return of a callback to Bot.Update, lines 221-235 and 237-244: an
\* error resets the command of the chat
CallbackReturn(chatID) ==
    /\ ResetOnError(chatID, last'.err)
    /\ UNCHANGED <<now, inflight, remvars, loadvars, pollvars>>

AnswerCallback(chatID, wordID, ease, newID, fail) ==
    /\ GradeCallback("AnswerCallback", chatID, wordID, ease, newID, fail,
                     TRUE)
    /\ CallbackReturn(chatID)

\* the actions of the buttons that call DontKnowCallback
DontKnowActions == {"PracticeDontKnowAction", "ResetProgressAction"}

DontKnowCallback(chatID, wordID, action, newID, fail) ==
    /\ GradeCallback("DontKnowCallback", chatID, wordID, AnswerAgain, newID,
                     fail, action # "ResetProgressAction")
    /\ CallbackReturn(chatID)

\* LearnCallback.Call, lines 167-195: Save with the text of the message as
\* the definition, then the keyboard of the message is removed
LearnCallback(chatID, wordID, text, fail) ==
    LET hit  == CacheLookup(chatID, wordID).ok
        word == CacheLookup(chatID, wordID).front
    IN  /\ IF ~hit
           THEN /\ last' = [Called("LearnCallback", chatID, "", Null, NoRow,
                                   FALSE)
                              EXCEPT !.id = wordID]
                /\ UNCHANGED <<rows, cache>>
           ELSE /\ Len(rows) < MaxRows
                /\ rows' = Append(rows, SavedRow(chatID, word, text, now))
                /\ cache' = [cache EXCEPT ![chatID] = CacheGet(@, wordID)]
                /\ last' = [Called("LearnCallback", chatID, word, Null, NoRow,
                                   fail = 1)
                              EXCEPT !.found = TRUE,
                                     !.id = wordID,
                                     !.definition = text,
                                     !.error =
                                       IF fail = 1
                                       THEN Wrap("editing message reply markup",
                                                 <<SendError>>)
                                       ELSE <<>>]
        /\ UNCHANGED <<practice, answers>>
        /\ CallbackReturn(chatID)

\* AnswerButtons with the interval of AnswerGood on every button
AnswerButtonsGoodIvl(pre, t) ==
    [i \in 1..Len(Previewed) |->
        [ease |-> Previewed[i], ivl |-> ScheduleOf(pre, t, AnswerGood).ivl]]

\* the buttons ShowAnswerCallback builds, lines 31-38: answerIK with each
\* ease and the interval CalcSchedule returns for it
AnswerButtons(pre, t) ==
    [i \in 1..Len(Previewed) |->
        [ease |-> Previewed[i], ivl |-> ScheduleOf(pre, t, Previewed[i]).ivl]]

\* ShowAnswerCallback.Call, lines 22-41, with the lookup of the id
ShowAnswerCall(chatID, wordID, fail) ==
    LET hit  == CacheLookup(chatID, wordID).ok
        word == CacheLookup(chatID, wordID).front
        pre  == FirstRow(rows, chatID, word)
    IN  /\ IF ~hit
           THEN /\ last' = [Called("ShowAnswerCallback", chatID, "", Null,
                                   NoRow, FALSE)
                              EXCEPT !.id = wordID]
                /\ UNCHANGED cache
           ELSE /\ cache' = [cache EXCEPT ![chatID] = CacheGet(@, wordID)]
                /\ last' = [Called("ShowAnswerCallback", chatID, word, Null,
                                   pre, pre = NoRow \/ fail = 1)
                              EXCEPT !.found = TRUE,
                                     !.id = wordID,
                                     !.error =
                                       IF pre = NoRow THEN ScanError(pre)
                                       ELSE IF fail = 1
                                       THEN Wrap("editing message",
                                                 <<SendError>>)
                                       ELSE <<>>,
                                     !.buttons =
                                       IF pre = NoRow THEN <<>>
                                       ELSE AnswerButtons(pre, now)]
        /\ UNCHANGED <<rows, practice, answers>>
        /\ CallbackReturn(chatID)

(***************************************************************************)
(* Bot.Update for a message.  What a command does with the message is a    *)
(* record: the command it returns (NilCommand for nil), the heap, table,   *)
(* cache and practice message it leaves, the kind of its error ("none",    *)
(* "user" for a UserError, "internal"), and what it did: the question it   *)
(* answered and the one it asked, the answers it called save with.         *)
(***************************************************************************)
\* a command that has done nothing yet
Outcome(cmd, h) ==
    [cmd |-> cmd, heap |-> h, rows |-> rows, cache |-> cache,
     practice |-> practice, kind |-> "none", error |-> <<>>,
     question |-> "", asked |-> "", saved |-> <<>>, calls |-> 0,
     bounded |-> TRUE]

\* the texts of the messages that are no commands
Texts == {"foo", ""}

\* for _, qe := range c.questions { if ... { q = qe; break } }: the first of
\* the indices S of the questions that satisfy the condition, 0 for nil
FirstQuestion(S) == IF S = {} THEN 0 ELSE Min(S)

\* the answer of the question called name among the questions qs
AnswerNamed(qs, h, name) ==
    LET S == {i \in 1..Len(qs) : h[qs[i]].name = name}
    IN  IF S = {} THEN "" ELSE h[qs[Max(S)]].answer

\* save of a command with questions, called once they all have answers:
\* lines 609-627 for /add (Repetitions.Save and "Added ..."), lines 646-651
\* for /delete (Repetitions.Delete and "Deleted ...")
SaveCommand(cmd, chatID, h, fail) ==
    LET front == AnswerNamed(cmd.questions, h, "front")
        back  == AnswerNamed(cmd.questions, h, "back")
        word  == h[cmd.questions[1]].answer
    IN  [Outcome(NilCommand, h) EXCEPT
           !.rows = IF cmd.name = "/add"
                    THEN Append(rows, SavedRow(chatID, front, back, now))
                    ELSE DeleteRows(rows, chatID, word),
           !.bounded = cmd.name = "/add" => Len(rows) < MaxRows,
           !.kind = IF fail = 1 THEN "internal" ELSE "none",
           !.error = IF fail = 1 THEN <<SendError>> ELSE <<>>,
           !.saved = AnswersOf(cmd, h),
           !.calls = 1]

\* ask of a question, askQuestion lines 590-594, and what the command
\* returns after it
Ask(cmd, h, i, fail) ==
    IF fail = 1
    THEN [Outcome(NilCommand, h) EXCEPT !.kind = "internal",
                                        !.error = <<SendError>>]
    ELSE [Outcome([cmd EXCEPT !.lastQuestion = h[cmd.questions[i]].name], h)
            EXCEPT !.asked = h[cmd.questions[i]].name]

\* multiQuestionCommand.OnCommand, lines 405-416; the save of a command
\* without questions is practiceReply, which opens a session
OnCommand(cmd, chatID, h, newID, fail) ==
    IF Len(cmd.questions) = 0
    THEN LET pr == PracticeReply(rows, chatID, cache[chatID], newID,
                                 fail # 1)
             p  == [NoPractice EXCEPT
                      !.n = Cardinality(DueIdx(rows, chatID, now)),
                      !.t0 = now]
         IN  [Outcome(NilCommand, h) EXCEPT
                !.cache = [cache EXCEPT ![chatID] = pr.cache],
                !.practice = [practice EXCEPT ![chatID] =
                                Presented(p, pr, rows, chatID)],
                !.kind = IF pr.error # <<>> THEN "internal" ELSE "none",
                !.error = pr.error,
                !.calls = 1]
    ELSE Ask(cmd, h, 1, fail)

\* validate of the question of a command: none for /add (lines 597-607),
\* Exists for /delete (lines 635-644)
Validate(cmd, chatID, text) ==
    cmd.name = "/delete" => ExistsResult(rows, chatID, text)

\* ProcessMessage that asks the last question without an answer
ProcessMessageAsksLast(cmd, chatID, text, fail) ==
    LET Last       == {i \in 1..Len(cmd.questions) :
                          heap[cmd.questions[i]].name = cmd.lastQuestion}
        q          == FirstQuestion(Last)
        h          == [heap EXCEPT ![cmd.questions[q]].answer = text]
        unanswered == {i \in 1..Len(cmd.questions) :
                          h[cmd.questions[i]].answer = ""}
        done       == IF unanswered = {}
                      THEN SaveCommand(cmd, chatID, h, fail)
                      ELSE Ask(cmd, h, Max(unanswered), fail)
    IN  IF q = 0
        THEN [Outcome(NilCommand, heap) EXCEPT
                !.kind = "internal",
                !.error = <<"INTERNAL ERROR: Did not find a question">>]
        ELSE IF ~Validate(cmd, chatID, text)
        THEN [Outcome(cmd, heap) EXCEPT
                !.kind = "user",
                !.error = <<"isn't saved for learning!">>]
        ELSE [done EXCEPT !.question = cmd.lastQuestion]

\* ProcessMessage that records the answer before it validates it
ProcessMessageRecordsFirst(cmd, chatID, text, fail) ==
    LET Last          == {i \in 1..Len(cmd.questions) :
                             heap[cmd.questions[i]].name = cmd.lastQuestion}
        q             == FirstQuestion(Last)
        h             == [heap EXCEPT ![cmd.questions[q]].answer = text]
        Unanswered    == {i \in 1..Len(cmd.questions) :
                             h[cmd.questions[i]].answer = ""}
        next          == FirstQuestion(Unanswered)
        done          == IF next = 0 THEN SaveCommand(cmd, chatID, h, fail)
                         ELSE Ask(cmd, h, next, fail)
    IN  IF q = 0
        THEN [Outcome(NilCommand, heap) EXCEPT
                !.kind = "internal",
                !.error = <<"INTERNAL ERROR: Did not find a question">>]
        ELSE IF ~Validate(cmd, chatID, text)
        THEN [Outcome(cmd, h) EXCEPT
                !.kind = "user",
                !.error = <<"isn't saved for learning!">>]
        ELSE [done EXCEPT !.question = cmd.lastQuestion]

\* multiQuestionCommand.ProcessMessage, lines 418-455
ProcessMessage(cmd, chatID, text, fail) ==
    LET Last          == {i \in 1..Len(cmd.questions) :
                             heap[cmd.questions[i]].name = cmd.lastQuestion}
        q             == FirstQuestion(Last)
        h             == [heap EXCEPT ![cmd.questions[q]].answer = text]
        Unanswered    == {i \in 1..Len(cmd.questions) :
                             h[cmd.questions[i]].answer = ""}
        next          == FirstQuestion(Unanswered)
        done          == IF next = 0 THEN SaveCommand(cmd, chatID, h, fail)
                         ELSE Ask(cmd, h, next, fail)
    IN  IF q = 0
        THEN [Outcome(NilCommand, heap) EXCEPT
                !.kind = "internal",
                !.error = <<"INTERNAL ERROR: Did not find a question">>]
        ELSE IF ~Validate(cmd, chatID, text)
        THEN [Outcome(cmd, heap) EXCEPT
                !.kind = "user",
                !.error = <<"isn't saved for learning!">>]
        ELSE [done EXCEPT !.question = cmd.lastQuestion]

\* defaultCommand.ProcessMessage, lines 663-708, for a text without spaces:
\* Cache.Add, then the definition of the card of that word or, if there is
\* none, the definitions Definer.Define finds; defined tells whether it
\* finds any
ProcessMessageDefault(chatID, text, newID, fail, defined) ==
    LET pre == FirstRow(rows, chatID, text)
        o   == [Outcome(NilCommand, heap) EXCEPT
                  !.cache = [cache EXCEPT ![chatID] =
                               CacheAdd(@, newID, text)]]
    IN  IF pre = NoRow /\ ~defined
        THEN [o EXCEPT !.kind = "user",
                       !.error = <<"Couldn't find definitions.">>]
        ELSE [o EXCEPT !.kind = IF fail = 1 THEN "internal" ELSE "none",
                       !.error = IF fail = 1 THEN <<SendError>> ELSE <<>>]

\* errors.Is(err, UserError{}), line 271: UserError has no Is method, so
\* err is compared with the UserError that has no chat and no error, which
\* none of the UserErrors of the commands is
IsZeroUserError(kind) == FALSE

\* fetchCommand, lines 186-203: LoadCommand returns nil, and AsCommand of
\* nil is the default command
FetchCommand(chatID) ==
    IF command[chatID] = NilCommand THEN DefaultCommand ELSE command[chatID]

\* Update that resets the command of a chat on no error
UpdateNeverResets(chatID, text, newID, fail, defined) ==
    LET isCmd == text \in CommandNames
        made  == Factory(text, chatID, heap)
        cmd0  == FetchCommand(chatID)
        r     == IF isCmd
                 THEN OnCommand(made.cmd, chatID, made.heap, newID, fail)
                 ELSE IF cmd0.kind = "multi"
                 THEN ProcessMessage(cmd0, chatID, text, fail)
                 ELSE ProcessMessageDefault(chatID, text, newID, fail,
                                            defined)
        kept  == IF r.kind = "none" \/ IsZeroUserError(r.kind)
                 THEN IF isCmd /\ r.cmd = NilCommand THEN DefaultCommand
                      ELSE r.cmd
                 ELSE IF isCmd THEN command[chatID] ELSE cmd0
        h     == IF r.kind = "none" \/ ~isCmd THEN r.heap ELSE heap
    IN  /\ r.bounded
        /\ rows' = r.rows
        /\ cache' = r.cache
        /\ practice' = r.practice
        /\ command' = UpdateCommand(command, chatID, kept)
        /\ heap' = IF kept.kind = "multi" THEN h ELSE Collected(h, chatID)
        /\ last' = [Called("Update", chatID, text, Null, NoRow,
                           r.kind = "internal" \/ (r.kind = "user" /\ fail = 1))
                      EXCEPT !.error = r.error,
                             !.question = r.question,
                             !.asked = r.asked,
                             !.saved = r.saved,
                             !.calls = r.calls,
                             !.user = r.kind = "user"]
        /\ UNCHANGED <<now, answers, inflight, remvars, loadvars, pollvars>>

\* Bot.Update for a message, lines 214-275: a text that names a command
\* starts a new instance of it, any other text goes to the command of the
\* chat; a UserError is surfaced with SendTextMessage; an error that
\* remains resets the command of the chat
Update(chatID, text, newID, fail, defined) ==
    LET isCmd  == text \in CommandNames
        made   == Factory(text, chatID, heap)
        cmd0   == FetchCommand(chatID)
        r      == IF isCmd
                  THEN OnCommand(made.cmd, chatID, made.heap, newID, fail)
                  ELSE IF cmd0.kind = "multi"
                  THEN ProcessMessage(cmd0, chatID, text, fail)
                  ELSE ProcessMessageDefault(chatID, text, newID, fail,
                                             defined)
        failed == r.kind = "internal" \/ (r.kind = "user" /\ fail = 1)
        kept   == IF r.kind = "none" \/ IsZeroUserError(r.kind)
                  THEN IF isCmd /\ r.cmd = NilCommand THEN DefaultCommand
                       ELSE r.cmd
                  ELSE IF isCmd THEN command[chatID] ELSE cmd0
        final  == IF failed THEN NilCommand ELSE kept
        h      == IF r.kind = "none" \/ ~isCmd THEN r.heap ELSE heap
    IN  /\ r.bounded
        /\ rows' = r.rows
        /\ cache' = r.cache
        /\ practice' = r.practice
        /\ command' = UpdateCommand(command, chatID, final)
        /\ heap' = IF final.kind = "multi" THEN h ELSE Collected(h, chatID)
        /\ last' = [Called("Update", chatID, text, Null, NoRow, failed)
                      EXCEPT !.error = r.error,
                             !.question = r.question,
                             !.asked = r.asked,
                             !.saved = r.saved,
                             !.calls = r.calls,
                             !.user = r.kind = "user"]
        /\ UNCHANGED <<now, answers, inflight, remvars, loadvars, pollvars>>

\* the command /practice, line 791
PracticeCommand(chatID, newID, fail) ==
    Update(chatID, "/practice", newID, fail, FALSE)

\* NewWordsCache, and no practice message in any chat
InitCallbacks ==
    /\ cache = [c \in Chats |-> <<>>]
    /\ practice = [c \in Chats |-> NoPractice]

(***************************************************************************)
(* Telegram.Poll.  The Bot API numbers the updates of a bot in the order   *)
(* in which they arrive; getUpdates with an offset forgets the updates     *)
(* below the offset and returns the earliest of the others.                *)
(***************************************************************************)
\* the orders in which a response lists its updates
Orders == {"ascending", "descending"}

\* the UpdateIds of S as a sequence in the given order
RECURSIVE Listed(_, _)
Listed(S, order) ==
    IF S = {} THEN <<>>
    ELSE LET u == IF order = "ascending" THEN Min(S) ELSE Max(S)
         IN  <<u>> \o Listed(S \ {u}, order)

\* the k smallest elements of S
RECURSIVE Earliest(_, _)
Earliest(S, k) ==
    IF k = 0 \/ S = {} THEN {}
    ELSE {Min(S)} \cup Earliest(S \ {Min(S)}, k - 1)

\* PollOffsetAfter that sets the offset to the UpdateId itself
RECURSIVE PollOffsetSameId(_, _)
PollOffsetSameId(offset, updates) ==
    IF updates = <<>> THEN offset
    ELSE PollOffsetSameId(IF Head(updates) >= offset THEN Head(updates)
                          ELSE offset,
                          Tail(updates))

\* the loop of Poll, lines 149-153: pollOffset after the updates
RECURSIVE PollOffsetAfter(_, _)
PollOffsetAfter(offset, updates) ==
    IF updates = <<>> THEN offset
    ELSE PollOffsetAfter(IF Head(updates) >= offset THEN Head(updates) + 1
                         ELSE offset,
                         Tail(updates))

\* an update arrives at the Bot API
Arrive ==
    LET id == Max(pending \cup {pollOffset - 1, 0}
                  \cup {returned[i] : i \in 1..Len(returned)}) + 1
    IN  /\ id <= MaxUpdates
        /\ pending' = pending \cup {id}
        /\ UNCHANGED <<rows, now, last, answers, inflight, remvars, loadvars,
                       cbvars, botvars, pollOffset, returned>>

\* Telegram.Poll, lines 142-155: getUpdates with pollOffset returns the k
\* earliest updates in some order, or the call fails (ok is FALSE)
Poll(k, order, ok) ==
    LET held    == {u \in pending : u >= pollOffset}
        updates == Listed(Earliest(held, k), order)
    IN  /\ k <= Cardinality(held)
        /\ pending' = IF ok THEN held ELSE pending
        /\ pollOffset' = IF ok THEN PollOffsetAfter(pollOffset, updates)
                         ELSE pollOffset
        /\ returned' = IF ok THEN returned \o updates ELSE returned
        /\ last' = [Called("Poll", Null, "", Null, NoRow, ~ok)
                      EXCEPT !.count = IF ok THEN Len(updates) ELSE 0,
                             !.error = IF ok THEN <<>> ELSE <<SendError>>]
        /\ UNCHANGED <<rows, now, answers, inflight, remvars, loadvars,
                       cbvars, botvars>>

\* a Telegram client that has not polled, and no update
InitPoll ==
    /\ pollOffset = 0
    /\ pending = {}
    /\ returned = <<>>

\* the handlers of updates of a bot that has started
InitApp ==
    /\ InitCallbacks
    /\ InitBot
    /\ InitPoll

\* the clock: a day passes
TickDay ==
    /\ (now - T0) \div Day < MaxDays
    /\ now' = now + Day
    /\ UNCHANGED <<rows, last, answers, inflight, nonstore>>

\* the clock: AgainDelay passes
TickShort ==
    /\ (now - T0) % Day < MaxShort * AgainDelay
    /\ now' = now + AgainDelay
    /\ UNCHANGED <<rows, last, answers, inflight, nonstore>>

(***************************************************************************)
(* Spec: the store of a running bot.  It is opened on a database that is   *)
(* empty or holds one row of the old layout.                               *)
(***************************************************************************)
\* the stages of the old rows: one inside the configured stages, with a
\* duration of more than a day, and one beyond them
LegacyStages == {2, Len(Stages)}

LegacyTables ==
    {<<>>} \cup
    {<<LegacyRow(1, "foo", "foo is bar", s, T0 - Day)>> : s \in LegacyStages}

Init ==
    /\ rows \in {NewRepetitionUpdate(db) : db \in LegacyTables}
    /\ now = T0
    /\ last = Called("NewRepetition", Null, "", Null, NoRow, FALSE)
    /\ answers = 0
    /\ inflight = [h \in Handlers |-> NoCall]
    /\ InitReminder
    /\ InitLoader
    /\ InitApp

\* an Answer call, counted against the bound max
CountedAnswer(chatID, word, answ, max) ==
    /\ answers < max
    /\ Answer(chatID, word, answ)
    /\ answers' = answers + 1

StoreAnswer(chatID, word, answ) ==
    CountedAnswer(chatID, word, answ, MaxStoreAnswers)

Next ==
    \/ NewRepetition
    \/ \E k \in Keys, d \in Definitions : Save(k[1], k[2], d)
    \/ \E k \in Keys, g \in AnswerEase : StoreAnswer(k[1], k[2], g)
    \/ \E k \in Keys : Delete(k[1], k[2])
    \/ TickDay
    \/ TickShort

Spec == Init /\ [][Next]_vars

(***************************************************************************)
(* SpecGrades: one card, saved in an empty store and graded any number of  *)
(* times within the same second, as TestRepetition does.                   *)
(***************************************************************************)
InitGrades ==
    /\ rows = NewRepetitionUpdate(<<>>)
    /\ now = T0
    /\ last = Called("NewRepetition", Null, "", Null, NoRow, FALSE)
    /\ answers = 0
    /\ inflight = [h \in Handlers |-> NoCall]
    /\ InitReminder
    /\ InitLoader
    /\ InitApp

SaveFoo == rows = <<>> /\ Save(1, "foo", "foo is bar")

AnswerFoo(answ) ==
    /\ rows # <<>>
    /\ Answer(1, "foo", answ)
    /\ UNCHANGED answers

NextGrades ==
    \/ SaveFoo
    \/ \E g \in AnswerEase : AnswerFoo(g)

SpecGrades == InitGrades /\ [][NextGrades]_vars

(***************************************************************************)
(* SpecTime: one card, saved in an empty store and graded at most          *)
(* MaxAnswers times while the clock advances.                              *)
(***************************************************************************)
TimedAnswerFoo(answ) == CountedAnswer(1, "foo", answ, MaxAnswers)

NextTime ==
    \/ SaveFoo
    \/ \E g \in AnswerEase : TimedAnswerFoo(g)
    \/ TickDay
    \/ TickShort

SpecTime == InitGrades /\ [][NextTime]_vars

(***************************************************************************)
(* SpecRace: one card, saved in an empty store and graded at most MaxPrior *)
(* times; then two updates that grade it are handled at the same time, in  *)
(* the same second.                                                        *)
(***************************************************************************)
PriorAnswerFoo(answ) ==
    /\ Entered = {}
    /\ rows # <<>>
    /\ CountedAnswer(1, "foo", answ, MaxPrior)

TapLoad(h, answ) ==
    /\ rows # <<>>
    /\ AnswerLoad(h, 1, "foo", answ)

NextRace ==
    \/ SaveFoo
    \/ \E g \in AnswerEase : PriorAnswerFoo(g)
    \/ \E h \in Handlers, g \in AnswerEase : TapLoad(h, g)
    \/ \E h \in Handlers : AnswerPersist(h)

SpecRace == InitGrades /\ [][NextRace]_vars

(***************************************************************************)
(* SpecReads: the store of Spec with the queries, all calls falling in the *)
(* same second.  The cards that are saved differ in their definitions, and *)
(* the grade of an Answer is any integer the callback data may carry.      *)
(***************************************************************************)
ReadAnswer(chatID, word, answ) ==
    CountedAnswer(chatID, word, answ, MaxReadAnswers)

NextReads ==
    \/ NewRepetition
    \/ \E c \in Cards : Save(c[1], c[2], c[3])
    \/ \E k \in Keys, g \in AnswerEase \cup InvalidEase :
            ReadAnswer(k[1], k[2], g)
    \/ \E k \in Keys : Delete(k[1], k[2])
    \/ \E c \in Chats : RepeatWord(c)
    \/ \E c \in Chats : Repeat(c)
    \/ \E c \in Chats : Stats(c)
    \/ \E k \in Keys : GetDefinition(k[1], k[2])
    \/ \E k \in Keys : Exists(k[1], k[2])
    \/ \E k \in Keys : ShowAnswerCallback(k[1], k[2])

SpecReads == Init /\ [][NextReads]_vars

(***************************************************************************)
(* SpecReminder: the reminder on a clock that advances, for the chats of   *)
(* SettingsOf.                                                             *)
(***************************************************************************)
NextReminder ==
    \/ \E c \in Chats, ok \in BOOLEAN : TrySendNotification(c, ok)
    \/ \E d \in ClockSteps : Elapse(d)

SpecReminder == InitGrades /\ [][NextReminder]_vars

(***************************************************************************)
(* SpecLoad: Loader.Load called at most MaxLoads times on one database,    *)
(* each time with any of the Inputs.                                       *)
(***************************************************************************)
NextLoad == \E input \in Inputs : Load(input)

SpecLoad == InitGrades /\ [][NextLoad]_vars

(***************************************************************************)
(* SpecDue: the store of Spec on a clock that advances, with RepeatWord.   *)
(***************************************************************************)
NextDue ==
    \/ \E k \in Keys, d \in Definitions : Save(k[1], k[2], d)
    \/ \E k \in Keys, g \in AnswerEase : StoreAnswer(k[1], k[2], g)
    \/ \E k \in Keys : Delete(k[1], k[2])
    \/ \E c \in Chats : RepeatWord(c)
    \/ TickDay
    \/ TickShort

SpecDue == Init /\ [][NextDue]_vars

(***************************************************************************)
(* SpecPractice: practice sessions on a clock that advances by AgainDelay.  *)
(* The cards of the Deck are saved before the first session; in a session  *)
(* the learner grades the presented card.  The id of a card differs from   *)
(* that of the card presented before.                                      *)
(***************************************************************************)
\* the chats that practise
Learners == {1}

\* the words of their cards
Deck == {"foo", "bar"}

\* an id that is not the one Cache.Add returned last
NewId(chatID) ==
    IF cache[chatID] # <<>> /\ cache[chatID][1].id = 1 THEN 2 ELSE 1

NoSession == \A c \in Chats : practice[c].pc = "none"

PracticeSave(chatID, word) ==
    /\ NoSession
    /\ ~ExistsResult(rows, chatID, word)
    /\ Save(chatID, word, "foo is bar")

GradePresented(chatID, ease, newID, fail) ==
    /\ practice[chatID].pc = "card"
    /\ answers < MaxGrades
    /\ AnswerCallback(chatID, practice[chatID].id, ease, newID, fail)
    /\ answers' = answers + 1

\* the clock advances once the first session has started
PracticeTick == ~NoSession /\ TickShort

NextPractice ==
    \/ \E c \in Learners, w \in Deck : PracticeSave(c, w)
    \/ \E c \in Learners, f \in Fails \ {2} :
            PracticeCommand(c, NewId(c), f)
    \/ \E c \in Learners, g \in AnswerEase, f \in Fails :
            GradePresented(c, g, NewId(c), f)
    \/ PracticeTick

SpecPractice == InitGrades /\ [][NextPractice]_vars

(***************************************************************************)
(* SpecPreview: one card, saved in an empty store and practised: the       *)
(* learner asks for the answer of the presented card and presses one of    *)
(* its buttons.  Days pass, and AgainDelay may pass between the preview    *)
(* and the press of the button.  All messages are sent.                    *)
(***************************************************************************)
PreviewPractice ==
    /\ practice[1].pc # "card"
    /\ PracticeCommand(1, NewId(1), 0)

ShowPresented(chatID) ==
    /\ practice[chatID].pc = "card"
    /\ ShowAnswerCall(chatID, practice[chatID].id, 0)

PreviewTickShort == last.op = "ShowAnswerCallback" /\ TickShort

NextPreview ==
    \/ SaveFoo
    \/ PreviewPractice
    \/ ShowPresented(1)
    \/ \E g \in AnswerEase : GradePresented(1, g, NewId(1), 0)
    \/ TickDay
    \/ PreviewTickShort

SpecPreview == InitGrades /\ [][NextPreview]_vars

(***************************************************************************)
(* SpecCallbacks: the buttons, all calls falling in the same second.  Each *)
(* chat saves one card; /practice presents a due card of the chat under an *)
(* id; a callback of a learner carries any id.  All messages are sent.     *)
(***************************************************************************)
CallbackSave(chatID, word) ==
    /\ ~ExistsResult(rows, chatID, word)
    /\ Save(chatID, word, "foo is bar")

\* a grading callback, counted as the Answer calls of SpecReads are
CountedCallback(A) ==
    /\ answers < MaxReadAnswers
    /\ A
    /\ answers' = answers + 1

NextCallbacks ==
    \/ \E c \in Chats : CallbackSave(c, "foo")
    \/ \E c \in Chats : PracticeCommand(c, NewId(c), 0)
    \/ \E c \in Learners, id \in Ids, g \in AnswerEase :
            CountedCallback(AnswerCallback(c, id, g, NewId(c), 0))
    \/ \E c \in Learners, id \in Ids, a \in DontKnowActions :
            CountedCallback(DontKnowCallback(c, id, a, NewId(c), 0))
    \/ \E c \in Learners, id \in Ids : LearnCallback(c, id, "foo is bar", 0)

SpecCallbacks == InitGrades /\ [][NextCallbacks]_vars

(***************************************************************************)
(* SpecBot: the messages of two chats and the button of a practice card,   *)
(* all calls falling in the same second.  A message of chat 1 is the name  *)
(* of a command with questions or one of the Texts, and the send of its    *)
(* handler may fail; chat 2 adds a card meanwhile.                         *)
(***************************************************************************)
BotMessage(chatID, text, fail, defined) ==
    Update(chatID, text, NewId(chatID), fail, defined)

\* a grading button pressed while a command of the chat waits for an answer
BotAnswer(chatID, id, fail) ==
    /\ command[chatID].kind = "multi"
    /\ answers < MaxReadAnswers
    /\ AnswerCallback(chatID, id, AnswerGood, NewId(chatID), fail)
    /\ answers' = answers + 1

\* the messages of the chat that starts /add and answers its first question
OtherMessage(chatID, text) ==
    /\ \/ text \in CommandNames
       \/ command[chatID].kind = "multi" /\ command[chatID].lastQuestion = "front"
    /\ BotMessage(chatID, text, 0, FALSE)

NextBot ==
    \/ \E c \in Learners, n \in DOMAIN Templates, f \in Fails \ {2} :
            BotMessage(c, n, f, FALSE)
    \/ \E c \in Learners, t \in Texts, f \in Fails \ {2}, d \in BOOLEAN :
            BotMessage(c, t, f, d)
    \/ \E c \in Learners, id \in Ids : BotAnswer(c, id, 0)
    \/ \E c \in Chats \ Learners, t \in {"/add", "bar"} : OtherMessage(c, t)

SpecBot == InitGrades /\ [][NextBot]_vars

(***************************************************************************)
(* SpecPoll: Telegram.Poll called again and again, as PollAndProcess does, *)
(* while updates arrive at the Bot API.                                    *)
(***************************************************************************)
NextPoll ==
    \/ Arrive
    \/ \E k \in 0..MaxUpdates, o \in Orders, ok \in BOOLEAN : Poll(k, o, ok)

SpecPoll == InitGrades /\ [][NextPoll]_vars

(***************************************************************************)
(* Properties.                                                             *)
(***************************************************************************)
\* the last call was an Answer that found its card
Graded == last.op = "Answer" /\ ~last.err

\* the card of the last call, as the table holds it now
Post == FirstRow(rows, last.chat_id, last.word)

\* whole days between the last review of the card and the last call
PriorDays == (last.t - last.pre.last_updated_seconds) \div 86400

\* the effective prior interval of the last call
PriorIvl == IF PriorDays > last.pre.ivl THEN PriorDays ELSE last.pre.ivl

\* C1: after every Answer the stored ease of the graded card is within
\* [130, 1300].
C1_EaseInRange ==
    Graded =>
        \A i \in 1..Len(rows) :
            Matches(rows[i], last.chat_id, last.word) =>
                rows[i].ease >= 130 /\ rows[i].ease <= 1300

\* an Easy answer on a card whose ease is 1300 already
C1_Witness ==
    /\ Graded
    /\ last.answ = AnswerEasy
    /\ last.pre.ease = 1300
    /\ Post.ease = 1300

\* C2: an Again answer stores interval 0 and next review = time of the
\* answer + 20 s, whatever the ease, interval and elapsed time before.
C2_AgainResets ==
    (Graded /\ last.answ = AnswerAgain) =>
        /\ Post.ivl = 0
        /\ Post.next_review_seconds = last.t + 20
        /\ Post.next_review_seconds < last.t + 86400

\* Again on a card with a positive interval, a day after its last review
C2_Witness ==
    /\ Graded
    /\ last.answ = AnswerAgain
    /\ last.pre.ivl > 0
    /\ PriorDays >= 1
    /\ Post.ivl = 0

C3_Delta(answ) ==
    CASE answ = AnswerAgain -> -20
      [] answ = AnswerHard  -> -15
      [] answ = AnswerGood  -> 0
      [] answ = AnswerEasy  -> 15

C3_Clamp(e) == IF e < 130 THEN 130 ELSE IF e > 1300 THEN 1300 ELSE e

\* C3: the stored ease after an Answer is the ease before it plus -20
\* (Again), -15 (Hard), 0 (Good) or +15 (Easy), clamped to [130, 1300].
C3_EaseAdjustment ==
    Graded => Post.ease = C3_Clamp(last.pre.ease + C3_Delta(last.answ))

\* Hard on ease 140: 125 is clamped to 130, and 130 is stored
C3_Witness ==
    /\ Graded
    /\ last.answ = AnswerHard
    /\ last.pre.ease = 140
    /\ Post.ease = 130

\* the multiplier of an answer as the fraction num / den, capped at 13
C4_Mult(answ, ease) ==
    LET raw == CASE answ = AnswerHard -> [num |-> 12, den |-> 10]
                 [] answ = AnswerGood -> [num |-> ease, den |-> 100]
                 [] answ = AnswerEasy -> [num |-> ease * 13, den |-> 1000]
    IN  IF raw.num > 13 * raw.den THEN [num |-> 13, den |-> 1] ELSE raw

\* 1 day after 0, 3 days after 1, else floor(p * multiplier), or p + 1
\* when that is p
C4_Interval(p, mult) ==
    IF p = 0 THEN 1
    ELSE IF p = 1 THEN 3
    ELSE IF (p * mult.num) \div mult.den = p THEN p + 1
    ELSE (p * mult.num) \div mult.den

\* C4: the interval a non-Again answer stores is 1 for the effective prior
\* interval p = 0, 3 for p = 1, and floor(p * multiplier) for p >= 2, or
\* p + 1 when floor(p * multiplier) = p.
C4_IntervalOfPrior ==
    (Graded /\ last.answ # AnswerAgain) =>
        Post.ivl = C4_Interval(PriorIvl, C4_Mult(last.answ, Post.ease))

\* the multiplier computed from the stored (adjusted and clamped) ease
C5_Mult(answ, ease) ==
    F64Min(CASE answ = AnswerHard -> F64Div(F64FromInt(12), F64FromInt(10))
             [] answ = AnswerGood -> F64Div(F64FromInt(ease), F64FromInt(100))
             [] answ = AnswerEasy ->
                   F64Div(F64Mul(F64FromInt(ease),
                                 F64Div(F64FromInt(13), F64FromInt(10))),
                          F64FromInt(100)),
           F64FromInt(13))

C5_Interval(p, mult) ==
    IF p = 0 THEN 1
    ELSE IF p = 1 THEN 3
    ELSE LET n == F64ToInt(F64Mul(F64FromInt(p), mult))
         IN  IF n = p THEN p + 1 ELSE n

\* C5: the interval a non-Again answer stores is the one the multiplier
\* 1.2 (Hard), ease/100 (Good) or ease*1.3/100 (Easy) gives, with the ease
\* taken after adjustment and clamping and the multiplier capped at 13.
C5_MultiplierAfterClamp ==
    (Graded /\ last.answ # AnswerAgain) =>
        Post.ivl = C5_Interval(PriorIvl, C5_Mult(last.answ, Post.ease))

\* Easy on a card of ease 1300 and interval 3: the cap gives 39 days
C5_Witness ==
    /\ Graded
    /\ last.answ = AnswerEasy
    /\ last.pre.ease = 1300
    /\ last.pre.ivl = 3
    /\ Post.ivl = 39

\* C6: the interval a non-Again answer stores is the one a card with the
\* same ease, reviewed at the time of the answer, gets when its stored
\* interval is max(stored interval, whole days since the last review).
C6_ElapsedCorrection ==
    (Graded /\ last.answ # AnswerAgain) =>
        Post.ivl =
            NextIvl(IF PriorDays > last.pre.ivl THEN PriorDays
                    ELSE last.pre.ivl,
                    CapMult(RawMult(last.pre.ease, last.answ)))

\* a card of interval 1 answered two days after its last review: Good
\* continues from 2 days, floor(2 * 2.5) = 5
C6_Witness ==
    /\ Graded
    /\ last.answ = AnswerGood
    /\ last.pre.ease = 250
    /\ last.pre.ivl = 1
    /\ PriorDays = 2
    /\ Post.ivl = 5

\* the answers of TestRepetition: answer, ease and interval before, ease
\* and interval after
C7_Trace ==
    <<<<AnswerAgain, 250, 0, 230, 0>>,
      <<AnswerGood, 230, 0, 230, 1>>,
      <<AnswerGood, 230, 1, 230, 3>>,
      <<AnswerGood, 230, 3, 230, 6>>,
      <<AnswerGood, 230, 6, 230, 13>>,
      <<AnswerAgain, 230, 13, 210, 0>>,
      <<AnswerEasy, 210, 0, 225, 1>>,
      <<AnswerEasy, 225, 1, 240, 3>>,
      <<AnswerEasy, 240, 3, 255, 9>>,
      <<AnswerHard, 255, 9, 240, 10>>>>

\* C7: with no time elapsed since the last review, each answer of the trace
\* takes the card from the trace's state before it to the state after it.
C7_TraceFollowed ==
    \A k \in 1..Len(C7_Trace) :
        (/\ Graded
         /\ last.t = last.pre.last_updated_seconds
         /\ last.answ = C7_Trace[k][1]
         /\ last.pre.ease = C7_Trace[k][2]
         /\ last.pre.ivl = C7_Trace[k][3])
        => (Post.ease = C7_Trace[k][4] /\ Post.ivl = C7_Trace[k][5])

\* the last answer of the trace: Hard takes (255, 9) to (240, 10)
C7_Witness ==
    /\ Graded
    /\ last.answ = AnswerHard
    /\ last.pre.ease = 255
    /\ last.pre.ivl = 9
    /\ Post.ease = 240
    /\ Post.ivl = 10

\* C8: after an answer other than Again the stored next review is later
\* than the stored last review, by the stored interval times 24 h.
C8_NextReviewAfterLast ==
    (Graded /\ last.answ # AnswerAgain) =>
        /\ Post.next_review_seconds > Post.last_updated_seconds
        /\ Post.next_review_seconds =
               Post.last_updated_seconds + Post.ivl * 24 * 3600

\* an answer that stores an interval of three days
C8_Witness ==
    /\ Graded
    /\ last.answ = AnswerHard
    /\ Post.ivl = 3
    /\ Post.last_updated_seconds = last.t

\* C9: every row of the table has a next review time, and it is not
\* before the row's last review time.
C9_NextReviewNotBeforeLast ==
    \A i \in 1..Len(rows) :
        /\ rows[i].next_review_seconds # Null
        /\ rows[i].next_review_seconds >= rows[i].last_updated_seconds

\* C10: a Good answer stores an interval greater than the one the card had
\* (so repeated Good answers on a new card increase it at every step).
C10_GoodIncreases ==
    (Graded /\ last.answ = AnswerGood) => Post.ivl > last.pre.ivl

\* the fifth Good in a row on a new card: 1, 3, 7, 17, 42
C10_Witness ==
    /\ Graded
    /\ last.answ = AnswerGood
    /\ last.pre.ease = 250
    /\ last.pre.ivl = 17
    /\ Post.ivl = 42

\* the concurrent Answer call that read its row first, and the other one
RaceFirst == CHOOSE h \in Handlers : inflight[h].seq = 1

RaceSecond == CHOOSE h \in Handlers : inflight[h].seq = 2

\* the card r after an Answer with grade answ that runs alone
Graded1(r, answ) == Reschedule(r, r.chat_id, r.word, ScheduleOf(r, now, answ))

C12_OneCardPerKey ==
    \A i, j \in 1..Len(rows) :
        (rows[i].chat_id = rows[j].chat_id /\ rows[i].word = rows[j].word)
            => i = j

\* C20: an Answer with a grade that is none of Again, Hard, Good and Easy
\* returns an error and leaves the card as it was.
C20_InvalidGradeRejected ==
    (last.op = "Answer" /\ last.pre # NoRow /\ last.answ \notin AnswerEase) =>
        /\ last.err
        /\ Post.ease = last.pre.ease
        /\ Post.ivl = last.pre.ivl
        /\ Post.last_updated_seconds = last.pre.last_updated_seconds
        /\ Post.next_review_seconds = last.pre.next_review_seconds

\* the row the last Save inserted
Inserted == rows[Len(rows)]

\* C13: Save stores a row with the given chat, word and definition, ease
\* 250, interval 0, last_updated_seconds = the time of the call and
\* next_review_seconds = that time + 0 days.
C13_CreateDefaults ==
    last.op = "Save" =>
        /\ Len(rows) >= 1
        /\ Inserted.chat_id = last.chat_id
        /\ Inserted.word = last.word
        /\ Inserted.definition = last.definition
        /\ Inserted.ease = 250
        /\ Inserted.ivl = 0
        /\ Inserted.last_updated_seconds = last.t
        /\ Inserted.next_review_seconds = last.t + 0 * 86400

\* a second card saved for chat 1
C13_Witness ==
    /\ last.op = "Save"
    /\ last.word = "bar"
    /\ Len(rows) = 2
    /\ Inserted.definition = "bar\n\nbar is baz"
    /\ Inserted.ease = 250

\* the rows of chat chatID that are due at time t
C14_Due(chatID, t) ==
    {i \in 1..Len(rows) :
        /\ rows[i].chat_id = chatID
        /\ rows[i].next_review_seconds # Null
        /\ rows[i].next_review_seconds <= t}

\* C14: a word RepeatWord returns is the word of a row of the requested
\* chat whose next_review_seconds is at most the time of the call.
C14_DueAndOwned ==
    (last.op = "RepeatWord" /\ ~last.err) =>
        \E i \in C14_Due(last.chat_id, last.t) : rows[i].word = last.word

\* chat 2 gets its due card although a card of chat 1 that is not yet due
\* comes first in the table
C14_Witness ==
    /\ last.op = "RepeatWord"
    /\ last.chat_id = 2
    /\ last.word = "foo"
    /\ Len(rows) = 2
    /\ rows[1].chat_id = 1
    /\ rows[1].next_review_seconds > last.t

\* C15: RepeatWord returns sql.ErrNoRows exactly when the chat has no due
\* row, a word without error when it has one, and practiceReply returns no
\* error for sql.ErrNoRows.
C15_NotFoundIffNoneDue ==
    last.op = "RepeatWord" =>
        /\ (last.error = <<ErrNoRows>>) <=> (C14_Due(last.chat_id, last.t) = {})
        /\ (last.error = <<>>) <=> (C14_Due(last.chat_id, last.t) # {})
        /\ last.err <=> (last.error # <<>>)
        /\ PracticeReplyError(last.error) = <<>>

\* nothing is due for chat 1, whose only card was answered Again a moment
\* ago, while a card of chat 2 is due
C15_Witness ==
    /\ last.op = "RepeatWord"
    /\ last.chat_id = 1
    /\ last.error = <<ErrNoRows>>
    /\ \E i \in 1..Len(rows) :
          rows[i].chat_id = 1 /\ rows[i].next_review_seconds > last.t
    /\ C14_Due(2, last.t) # {}

C17_Queries ==
    {"RepeatWord", "Repeat", "Stats", "GetDefinition", "Exists",
     "ShowAnswerCallback"}

\* C17: a step that ends in the return of RepeatWord, Repeat, Stats,
\* GetDefinition, Exists or the CalcSchedule calls of ShowAnswerCallback
\* leaves every row of the table as it was.
C17_QueriesLeaveCards ==
    [][last'.op \in C17_Queries => rows' = rows]_vars

\* the answer was shown for a card graded before: the previews differ from
\* the stored interval, which is still what the query read
C17_Witness ==
    /\ last.op = "ShowAnswerCallback"
    /\ ~last.err
    /\ last.pre.ivl = 1
    /\ last.shown = <<0, 3, 3, 3>>
    /\ Post = last.pre

\* the rows of rs with the key of call c
C18_Held(rs, c) ==
    {i \in 1..Len(rs) : rs[i].chat_id = c.chat_id /\ rs[i].word = c.word}

\* C18: Delete returns no error and leaves no row of its key, so that a
\* second Delete of the key leaves the table unchanged; Exists returns true
\* exactly when the table holds a row of its key.
C18_DeleteIdempotent ==
    /\ last.op = "Delete" =>
          /\ ~last.err
          /\ C18_Held(rows, last) = {}
          /\ DeleteRows(rows, last.chat_id, last.word) = rows
    /\ last.op = "Exists" =>
          (last.found <=> C18_Held(rows, last) # {})

\* the card of chat 1 for "foo" was deleted; the card of chat 2 for the
\* same word is still there
C18_Witness ==
    /\ last.op = "Delete"
    /\ last.chat_id = 1
    /\ last.word = "foo"
    /\ Len(rows) = 1
    /\ rows[1].chat_id = 2
    /\ rows[1].word = "foo"

\* C19: Answer and GetDefinition for a key without a row return the error
\* that callers compare with sql.ErrNoRows, and leave the table unchanged.
C19_NotFound ==
    [][(/\ last'.op \in {"Answer", "GetDefinition"}
        /\ C18_Held(rows, last') = {}) =>
            /\ last'.err
            /\ last'.error = <<ErrNoRows>>
            /\ rows' = rows]_vars

(***************************************************************************)
(* C21: Save, Answer and Delete for one chat leave every row of every      *)
(* other chat as it was, in its place among them, also when both chats     *)
(* hold a card for the same word.                                          *)
(***************************************************************************)
C21_Writes == {"Save", "Answer", "Delete"}

\* the rows of the chats other than c, in rowid order
C21_Others(rs, c) == SelectSeq(rs, LAMBDA r : r.chat_id # c)

C21_OtherChatsUnchanged ==
    [][last'.op \in C21_Writes =>
          C21_Others(rows', last'.chat_id) = C21_Others(rows, last'.chat_id)
      ]_vars

\* chat 1 has graded its card for foo while chat 2 holds one for foo too
C21_Witness ==
    /\ Graded
    /\ last.chat_id = 1
    /\ last.word = "foo"
    /\ Post.last_updated_seconds = last.t
    /\ \E i \in 1..Len(rows) : Matches(rows[i], 2, "foo")

(***************************************************************************)
(* C22: every row with ivl = 0 and a next review time is to be reviewed 0  *)
(* seconds (after Save) or AgainDelay seconds (after Again) after its last *)
(* review, never a day or more after it; the rows NewRepetition            *)
(* initialised included.                                                   *)
(***************************************************************************)
C22_Delay(r) == r.next_review_seconds - r.last_updated_seconds

C22_ZeroIntervalShortDelay ==
    \A i \in 1..Len(rows) :
        (rows[i].ivl = 0 /\ rows[i].next_review_seconds # Null) =>
            /\ C22_Delay(rows[i]) \in {0, AgainDelay}
            /\ C22_Delay(rows[i]) < Day

(***************************************************************************)
(* C23: RepeatWord called right after Save, for the same chat and at the   *)
(* same time, returns the card just saved (the initial interval being 0,   *)
(* the card is due at once).                                               *)
(***************************************************************************)
\* this step is a RepeatWord that follows a Save of its chat at once
C23_SaveThenRepeatWord ==
    /\ last.op = "Save"
    /\ last'.op = "RepeatWord"
    /\ last'.chat_id = last.chat_id
    /\ last'.t = last.t

C23_NewCardReturned ==
    [][C23_SaveThenRepeatWord =>
          /\ last'.error = <<>>
          /\ last'.word = last.word
      ]_vars

\* C23 as amended: RepeatWord called right after Save returns a card, the
\* card just saved being due; it returns that card when no other row of
\* the chat is due
C23_NewDue == DueIdx(rows, last.chat_id, last.t)

C23_NewCardDue ==
    [][C23_SaveThenRepeatWord =>
          /\ last'.error = <<>>
          /\ Len(rows) \in C23_NewDue
          /\ Matches(rows[Len(rows)], last.chat_id, last.word)
          /\ (\A i \in C23_NewDue : rows[i].word = last.word) =>
                 last'.word = last.word
      ]_vars

\* RepeatWord has returned the row saved last, at the time of the call,
\* which an older row precedes in the table
C23_Witness ==
    /\ last.op = "RepeatWord"
    /\ last.error = <<>>
    /\ Len(rows) = 2
    /\ last.pre = rows[2]
    /\ last.pre = SavedRow(last.chat_id, last.word, last.pre.definition,
                           last.t)

(***************************************************************************)
(* C24: NewRepetition on a database that was initialised before returns    *)
(* no error, and every row whose next_review_seconds is not NULL keeps     *)
(* its ease, interval and review times; no row is added or removed.        *)
(***************************************************************************)
C24_Schedule(r) ==
    <<r.ease, r.ivl, r.last_updated_seconds, r.next_review_seconds>>

C24_RerunKeepsSchedules ==
    [][last'.op = "NewRepetition" =>
          /\ ~last'.err
          /\ Len(rows') = Len(rows)
          /\ \A i \in 1..Len(rows) :
                rows[i].next_review_seconds # Null =>
                    /\ C24_Schedule(rows'[i]) = C24_Schedule(rows[i])
                    /\ Matches(rows'[i], rows[i].chat_id, rows[i].word)
      ]_vars

\* NewRepetition has run on a store that holds a graded card
C24_Witness ==
    /\ last.op = "NewRepetition"
    /\ \E i \in 1..Len(rows) :
          /\ rows[i].ivl > 0
          /\ rows[i].last_updated_seconds = last.t

(***************************************************************************)
(* C25: two notifications to the same chat are more than 24 hours apart:   *)
(* the later is sent after t + 24 h, t being the time of the earlier.      *)
(***************************************************************************)
C25_OncePerDay ==
    \A i, j \in 1..Len(sent) :
        (i < j /\ sent[i].chat_id = sent[j].chat_id) =>
            sent[j].at > sent[i].at + 24 * Hour * Subs

(***************************************************************************)
(* C26: TrySendNotification sends to a chat only when the time of day on   *)
(* the chat's clock (UTC plus the chat's offset) lies inside one of the    *)
(* chat's availability windows; outside all of them it sends nothing and   *)
(* leaves the Reminders table as it is, however long ago the last          *)
(* notification was.                                                       *)
(***************************************************************************)
\* the time of day of chat c at the UNIX time t
C26_TimeOfDay(c, t) == (t + SettingsOf(c).TimeZoneOffset) % 86400

C26_Open(c, t) ==
    \E i \in 1..Len(SettingsOf(c).AvailibilityWindows) :
        LET w == SettingsOf(c).AvailibilityWindows[i]
        IN  /\ w.StartSeconds <= C26_TimeOfDay(c, t)
            /\ C26_TimeOfDay(c, t) <= w.EndSeconds

C26_OnlyInsideWindow ==
    [][last'.op = "TrySendNotification" =>
          \/ C26_Open(last'.chat_id, now)
          \/ sent' = sent /\ reminders' = reminders
      ]_vars

\* TrySendNotification has run for a chat whose last notification is more
\* than 24 hours old, outside the chat's windows, and has sent nothing
C26_Witness ==
    /\ last.op = "TrySendNotification"
    /\ last.t = now
    /\ ~last.found
    /\ reminders[last.chat_id] # Null
    /\ now > reminders[last.chat_id] + 24 * Hour
    /\ ~C26_Open(last.chat_id, now)

(***************************************************************************)
(* C27: a call of Load that follows a call with the same input files on    *)
(* the same database is a no-op: the row counts of Sentences, Translations *)
(* and Words after it are those before it.                                 *)
(***************************************************************************)
C27_SecondLoadIsNoOp ==
    [][(loads # <<>> /\ loads' = Append(loads, loads[Len(loads)])) =>
          TableCounts(sentences', translations', words') =
              TableCounts(sentences, translations, words)
      ]_vars

(***************************************************************************)
(* C28: when the same grading callback (same chat, word and grade) is      *)
(* delivered twice in a row, the second delivery leaves the card as the    *)
(* first left it: ease, interval and next review time do not change.       *)
(***************************************************************************)
\* this step is the Answer of a callback whose Answer was the step before
C28_Redelivered ==
    /\ Graded
    /\ last'.op = "Answer"
    /\ ~last'.err
    /\ last'.chat_id = last.chat_id
    /\ last'.word = last.word
    /\ last'.answ = last.answ

C28_DoubleTapGradesOnce ==
    [][C28_Redelivered => rows' = rows]_vars

(***************************************************************************)
(* C29: once NewRepetition has run, every row of the Repetition table has  *)
(* next_review_seconds, ease and ivl that are not NULL, the rows of the    *)
(* old layout whose stage is len(stages) or more included.                 *)
(***************************************************************************)
C29_EveryRowScheduled ==
    \A i \in 1..Len(rows) :
        /\ rows[i].next_review_seconds # Null
        /\ rows[i].ease # Null
        /\ rows[i].ivl # Null

(***************************************************************************)
(* C30: a card that was graded is not returned by RepeatWord before the    *)
(* next review time the grading gave it (AgainDelay after an Again, ivl    *)
(* days after another grade), and from that time on RepeatWord finds a     *)
(* card for the chat, this one if no other is due, until the card is       *)
(* graded again or deleted.                                                *)
(***************************************************************************)
\* r is as a grading at r.last_updated_seconds left it
C30_Graded(r) ==
    /\ r.next_review_seconds # Null
    /\ \/ r.ivl = 0 /\
          r.next_review_seconds = r.last_updated_seconds + AgainDelay
       \/ r.ivl > 0 /\
          r.next_review_seconds = r.last_updated_seconds + r.ivl * 86400

\* the graded rows of the chat of the last call
C30_GradedIdx ==
    {i \in 1..Len(rows) :
        rows[i].chat_id = last.chat_id /\ C30_Graded(rows[i])}

C30_DueFromNextReview ==
    last.op = "RepeatWord" =>
        /\ \A i \in C30_GradedIdx :
              (rows[i].next_review_seconds > last.t /\ ~last.err) =>
                  rows[i].word # last.word
        /\ \A i \in C30_GradedIdx :
              rows[i].next_review_seconds <= last.t =>
                  /\ ~last.err
                  /\ (\A j \in 1..Len(rows) :
                         (rows[j].chat_id = last.chat_id /\
                          rows[j].next_review_seconds # Null /\
                          rows[j].next_review_seconds <= last.t) =>
                             rows[j].word = rows[i].word) =>
                        last.word = rows[i].word

C32_Days(r, t) == (t - r.last_updated_seconds) \div Day

C32_Pressed ==
    /\ last.op = "ShowAnswerCallback"
    /\ ~last.err
    /\ last.buttons # <<>>
    /\ last'.op = "AnswerCallback"
    /\ ~last'.err
    /\ last'.found
    /\ last'.chat_id = last.chat_id
    /\ last'.word = last.word
    /\ last'.pre = last.pre
    /\ C32_Days(last.pre, last'.t) = C32_Days(last.pre, last.t)

C32_ButtonIvlPersisted ==
    [][C32_Pressed =>
          \A i \in 1..Len(last.buttons) :
              last.buttons[i].ease = last'.answ =>
                  FirstRow(rows', last'.chat_id, last'.word).ivl
                      = last.buttons[i].ivl]_vars

\* the Good button was pressed 20 seconds after the answer was shown, on a
\* card last reviewed a day before the preview, and the interval written
\* is the one on the button
C32_Witness ==
    /\ last.op = "AnswerCallback"
    /\ ~last.err
    /\ last.answ = AnswerGood
    /\ last.pre.ivl > 0
    /\ last.shownAt = last.pre.last_updated_seconds + Day
    /\ last.t = last.shownAt + AgainDelay
    /\ \E i \in 1..Len(last.buttons) :
          /\ last.buttons[i].ease = AnswerGood
          /\ last.buttons[i].ivl > 1
          /\ last.buttons[i].ivl
                = FirstRow(rows, last.chat_id, last.word).ivl

(***************************************************************************)
(* C33.  A callback whose word id is not a key of the WordsCache of its    *)
(* chat performs no store operation and returns without error: the table   *)
(* of cards is left as it is.                                              *)
(***************************************************************************)
C33_Callbacks == {"AnswerCallback", "DontKnowCallback", "LearnCallback"}

\* the step is a callback of a chat with an id its cache did not hold
C33_Miss ==
    /\ last'.op \in C33_Callbacks
    /\ last'.id # Null
    /\ \A i \in 1..Len(cache[last'.chat_id]) :
          cache[last'.chat_id][i].id # last'.id

C33_MissTouchesNoCard ==
    [][C33_Miss => rows' = rows /\ ~last'.err /\ last'.error = <<>>]_vars

\* a grading callback of chat 1 came with an id that only the cache of chat
\* 2 holds, for a word chat 1 has a card of
C33_Witness ==
    /\ last.op = "AnswerCallback"
    /\ last.chat_id = 1
    /\ ~last.found
    /\ \A i \in 1..Len(cache[1]) : cache[1][i].id # last.id
    /\ \E i \in 1..Len(cache[2]) :
          /\ cache[2][i].id = last.id
          /\ ExistsResult(rows, 1, cache[2][i].word)

(***************************************************************************)
(* C34.  In a multi-question command a message that is accepted is         *)
(* recorded as the answer to the question asked last, and the answers of   *)
(* the other questions stay; then the first question in list order without *)
(* an answer is asked, and once no question is without an answer save is   *)
(* called, once, with answers that are all non-empty, and the chat is back *)
(* on the default command.                                                 *)
(***************************************************************************)
\* the step handles a message of a chat whose command has questions
C34_Answered ==
    /\ last'.op = "Update"
    /\ last'.word \notin CommandNames
    /\ command[last'.chat_id].kind = "multi"
    /\ ~last'.user

\* the answers of cmd after text was given for the question called name
C34_Recorded(cmd, name, text) ==
    [i \in 1..Len(cmd.questions) |->
        IF heap[cmd.questions[i]].name = name THEN text
        ELSE heap[cmd.questions[i]].answer]

\* the name of the first question without an answer among answers, "" if
\* there is none
C34_FirstUnanswered(cmd, as) ==
    IF \A i \in 1..Len(as) : as[i] # "" THEN ""
    ELSE heap[cmd.questions[Min({i \in 1..Len(as) : as[i] = ""})]].name

C34_AnswerThenAskOrSave ==
    [][C34_Answered =>
          LET c    == last'.chat_id
              cmd  == command[c]
              as   == C34_Recorded(cmd, cmd.lastQuestion, last'.word)
              next == C34_FirstUnanswered(cmd, as)
          IN  /\ last'.question = cmd.lastQuestion
              /\ last'.calls = (IF next = "" THEN 1 ELSE 0)
              /\ next = ""
                    => /\ last'.saved = as
                       /\ \A i \in 1..Len(as) : as[i] # ""
                       /\ command'[c].kind # "multi"
              /\ next # "" /\ ~last'.err
                    => /\ last'.asked = next
                       /\ command'[c].kind = "multi"
                       /\ command'[c].name = cmd.name
                       /\ command'[c].lastQuestion = next
                       /\ AnswersOf(command'[c], heap') = as]_vars

\* /add has asked for the front again after an empty message, got it, and
\* was called with both answers
C34_Witness ==
    /\ last.op = "Update"
    /\ last.calls = 1
    /\ ~last.err
    /\ last.saved = <<"foo", "foo">>
    /\ last.question = "back"
    /\ command[last.chat_id].kind = "nil"
    /\ ExistsResult(rows, last.chat_id, "foo")

(***************************************************************************)
(* C35: a message that fails validation leaves the command as it was.      *)
(***************************************************************************)

\* a message of a chat whose command waits for an answer, refused by the
\* validation of the question with a UserError
C35_ValidationFails ==
    /\ last'.op = "Update"
    /\ last'.word \notin CommandNames
    /\ command[last'.chat_id].kind = "multi"
    /\ last'.user

\* the command of the chat, its pending question and its answers are after
\* the step what they were before it, and no card has changed
C35_Untouched ==
    LET c == last'.chat_id
    IN  /\ command'[c] = command[c]
        /\ command'[c].lastQuestion = command[c].lastQuestion
        /\ \A i \in 1..Len(command[c].questions) :
              heap'[command[c].questions[i]] = heap[command[c].questions[i]]
        /\ rows' = rows

\* C35 as stated: whenever the validation of an answer fails with a
\* UserError, no answer is recorded and the same command with the same
\* pending question remains the command of the chat
C35_ValidationKeepsCommand ==
    [][C35_ValidationFails => C35_Untouched]_vars

\* C35, amended: whenever the validation of an answer fails with a UserError
\* and the error message reaches the user, no answer is recorded and the
\* same command with the same pending question remains the command of the
\* chat
C35_SurfacedValidationKeepsCommand ==
    [][C35_ValidationFails /\ ~last'.err => C35_Untouched]_vars

\* /delete has refused a word that is not saved, told the user so, and still
\* waits for the word
C35_Witness ==
    /\ last.op = "Update"
    /\ last.user
    /\ ~last.err
    /\ last.word = "foo"
    /\ command[last.chat_id].kind = "multi"
    /\ command[last.chat_id].name = "/delete"
    /\ command[last.chat_id].lastQuestion = "word"
    /\ AnswersOf(command[last.chat_id], heap) = <<"">>
    /\ ~ExistsResult(rows, last.chat_id, "foo")

(***************************************************************************)
(* C36: an error that remains resets the command, a surfaced one does not. *)
(***************************************************************************)

\* the operations Bot.Update hands an update to
C36_Handled == {"Update", "AnswerCallback"}

\* the command that handles the next message of the chat
C36_NextHandler(cs, chatID) ==
    IF cs[chatID].kind = "nil" THEN DefaultCommand ELSE cs[chatID]

\* C36: whenever Bot.Update returns an error, the command of the chat is
\* reset and its next message goes to the default command; whenever the
\* only error is a UserError that was sent to the user, the command that
\* handled the message stays the command of the chat
C36_ResetOnInternalErrorOnly ==
    [][last'.op \in C36_Handled =>
          LET c == last'.chat_id
          IN  /\ last'.err
                    => /\ command'[c] = NilCommand
                       /\ C36_NextHandler(command', c) = DefaultCommand
              /\ last'.user /\ ~last'.err
                    => /\ command'[c] = C36_NextHandler(command, c)
                       /\ C36_NextHandler(command', c)
                             = C36_NextHandler(command, c)]_vars

\* a grading button pressed for a word without a card, while /add waited
\* for an answer, has ended with an error and /add is gone
C36_Witness ==
    /\ last.op = "AnswerCallback"
    /\ last.err
    /\ last.pre = NoRow
    /\ command[last.chat_id] = NilCommand

(***************************************************************************)
(* C37: every start of a command gets question objects of its own.         *)
(***************************************************************************)

\* the answers the command of the chat holds, in list order
C37_Answers(cs, h, chatID) ==
    [i \in 1..Len(cs[chatID].questions) |->
        h[cs[chatID].questions[i]].answer]

\* a command with questions has just been started for a chat
C37_Started ==
    /\ last'.op = "Update"
    /\ last'.word \in DOMAIN Templates
    /\ ~last'.err

\* C37: a command that starts holds an empty answer for each of its
\* questions, whatever was answered before in this chat or is being
\* answered in another one; its question objects are those of no other
\* chat and not those the factory was built with; and a step of one chat
\* changes neither the command nor the answers of another chat
C37_FreshQuestions ==
    [][/\ C37_Started
            => LET c == last'.chat_id
               IN  /\ command'[c].kind = "multi"
                   /\ command'[c].name = last'.word
                   /\ Len(command'[c].questions) = Len(Templates[last'.word])
                   /\ \A i \in 1..Len(command'[c].questions) :
                         C37_Answers(command', heap', c)[i] = ""
       /\ \A c \in Chats :
             \A i \in 1..Len(command'[c].questions) :
                /\ command'[c].questions[i].owner # Template
                /\ \A d \in Chats \ {c} :
                      \A j \in 1..Len(command'[d].questions) :
                         command'[d].questions[j] # command'[c].questions[i]
       /\ \A d \in Chats \ {last'.chat_id} :
             /\ command'[d] = command[d]
             /\ C37_Answers(command', heap', d)
                   = C37_Answers(command, heap, d)]_vars

\* chat 1 has just started /add and is asked for the front with no answer
\* recorded, while the /add of chat 2 holds the front "bar"
C37_Witness ==
    /\ last.op = "Update"
    /\ last.chat_id = 1
    /\ last.word = "/add"
    /\ ~last.err
    /\ last.asked = "front"
    /\ C37_Answers(command, heap, 1) = <<"", "">>
    /\ command[2].name = "/add"
    /\ C37_Answers(command, heap, 2) = <<"bar", "">>

(***************************************************************************)
(* C38: a notification that could not be sent leaves the last reminder     *)
(* time as it is.                                                          *)
(***************************************************************************)

\* a call of TrySendNotification: it leaves the clock alone
C38_Called ==
    /\ last'.op = "TrySendNotification"
    /\ now' = now
    /\ nsec' = nsec

\* the time of day of the chat lies in one of its windows
C38_Open(c) ==
    \E i \in 1..Len(SettingsOf(c).AvailibilityWindows) :
        LET w == SettingsOf(c).AvailibilityWindows[i]
            d == (now + SettingsOf(c).TimeZoneOffset) % 86400
        IN  w.StartSeconds <= d /\ d <= w.EndSeconds

\* C38: a call of TrySendNotification whose send fails returns the error
\* and leaves the Reminders table as it is; the table changes only in a
\* call that has delivered a notification to that chat, and only in the row
\* of that chat; and the call for a chat that follows a failed one for the
\* same chat tries to send again if a window of the chat is still open
C38_NoUpdateOnFailedSend ==
    [][C38_Called =>
          LET c == last'.chat_id
          IN  /\ last'.err => reminders' = reminders /\ sent' = sent
              /\ reminders' # reminders
                    => /\ ~last'.err
                       /\ Len(sent') = Len(sent) + 1
                       /\ sent'[Len(sent')].chat_id = c
                       /\ \A d \in Chats \ {c} : reminders'[d] = reminders[d]
                       /\ reminders'[c] = now
              /\ (/\ last.op = "TrySendNotification"
                  /\ last.err
                  /\ last.chat_id = c)
                    => last'.found = C38_Open(c)]_vars

\* a send to a chat that has been notified before has failed a day later,
\* and the stored time is still that of the earlier notification
C38_Witness ==
    /\ last.op = "TrySendNotification"
    /\ last.err
    /\ last.t = now
    /\ reminders[last.chat_id] # Null
    /\ now > reminders[last.chat_id] + 24 * Hour
    /\ \E i \in 1..Len(sent) : sent[i].chat_id = last.chat_id

(***************************************************************************)
(* C39: pollOffset never decreases and is past every update returned.      *)
(***************************************************************************)

\* the UpdateIds Poll has returned so far
C39_Returned(r) == {r[i] : i \in 1..Len(r)}

\* C39: no step lowers pollOffset; after every step pollOffset is greater
\* than the UpdateId of every update Poll has returned so far; the updates
\* a Poll returns are at or above the offset it asked with, so none of them
\* was returned before and no update is returned twice
C39_OffsetPastReturned ==
    [][/\ pollOffset' >= pollOffset
       /\ \A u \in C39_Returned(returned') : u < pollOffset'
       /\ \A i \in Len(returned) + 1..Len(returned') :
             /\ returned'[i] >= pollOffset
             /\ returned'[i] \notin C39_Returned(returned)
       /\ \A i, j \in 1..Len(returned') :
             i # j => returned'[i] # returned'[j]]_vars

\* a second successful Poll has returned two updates, the later one first,
\* after a first Poll returned one; pollOffset is past all three and a
\* fourth update waits
C39_Witness ==
    /\ last.op = "Poll"
    /\ ~last.err
    /\ last.count = 2
    /\ returned = <<1, 3, 2>>
    /\ pollOffset = 4
    /\ 4 \in pending

====
